---- MODULE Spec2Model ----
(***************************************************************************)
(* A model of the hashquery model IR and SQL compiler.                     *)
(*                                                                         *)
(* The module holds several specifications over one set of variables:     *)
(*   SpecBuilder  the Model builder methods over an object heap            *)
(*                (utils/builder.py, model/model.py)                       *)
(*   SpecIn       ColumnExpression.in_ over a list of values, compiled     *)
(*                and evaluated with SQL's three-valued logic              *)
(* Each specification leaves the variables of the others untouched.       *)
(***************************************************************************)
EXTENDS Integers, Sequences, FiniteSets, TLC

VARIABLES
    models,     \* heap of Model objects: handle -> Model fields
    sources,    \* heap of Source objects: id -> Source node
    handles,    \* the Model handles the calling program holds
    wire0,      \* handle -> wire form of the Model when it was constructed
    ncalls,     \* builder calls made so far
    in_self,    \* value of the column `self` in the record under test
    in_other,   \* the list handed to in_
    in_expr,    \* the ColumnExpression in_ returned
    in_value,   \* what the compiled expression evaluates to for the record
    in_pc,      \* "idle", "call", "built", "done"
    ms_events,      \* the events table: records (user_id, event, ts)
    ms_steps,       \* the steps of match_steps: event names
    ms_time_limit,  \* time_limit in timestamp units, 0 for none
    ms_dialect,     \* SQL dialect of the connection
    ms_top,         \* top_of_funnel: a start index or a name
    ms_pc,          \* the CTE of the match_steps pipeline evaluated next
    ms_union,       \* rows of the events CTE
    ms_journeys,    \* rows of the journeys CTE chain
    ms_limited,     \* rows of the CTE the final layer joins to
    ms_rows,        \* rows of the model match_steps returns
    ms_funnel,      \* rows of the model funnel returns, in order
    pl_table,   \* rows of the table "t", in scan order
    pl_ops,     \* the Source of the model: a table, then the operations applied
    pl_plan,    \* the compiled query, its CTEs and the alias checkpoints
    pl_rows,    \* the records run(model) returns
    wk_x,   \* the datetime truncated: day number (day 0 is a Monday), time of day, column type
    wk_dialect,   \* SQL dialect of the connection
    wk_offset,   \* DAY_OF_WEEK_MAPPING[settings.first_day_of_week]
    wk_sql,   \* the compiled week truncation
    wk_value,   \* what the database evaluates the compiled expression to
    wk_py,   \* what the preprocessor truncates the constant to
    wk_pc,  \* "idle", "compile", "execute", "preprocess", "done"
    lf_live,   \* ids (addresses) of the expression objects the caller still holds
    lf_preprocessed,   \* QueryContext.preprocessed: the ids recorded by preprocessing
    lf_expr,   \* the expression handed to the last compilation
    lf_sql,   \* what the last compilation emitted
    lf_n,  \* number of expressions compiled within this compilation
    wr_node,   \* the IR node handed to to_wire_format
    wr_wire,   \* the payload in flight
    wr_back,   \* what from_wire_format gave: a node or the error raised
    wr_pc,  \* position of the round trip
    ex_pc,   \* position inside execute_model
    ex_sql_only,   \* the sql_only argument
    ex_handlers,   \* QueryContext.execution_error_handlers
    ex_registered,   \* the handlers in the order they were registered
    ex_raised,   \* what compile_source, finalized or get_query_text raised ("" if nothing)
    ex_compile,   \* the ExecuteModelCompileResult
    ex_data,   \* the ExecuteModelDataResult, or <<>> for None
    ex_sent,   \* number of queries handed to the database connection
    ex_escaped,  \* an exception left execute_model
    nm_identifier,   \* _manually_set_identifier of the column expression ("" for None)
    nm_namespaces,   \* identifiers of the relations of the model
    nm_call,   \* the naming call made last: API and name given
    nm_raised,  \* whether that call raised ValueError
    sh_i,   \* index of the earlier of the two steps one event matches
    sh_j,   \* index of the later one
    sh_rows,   \* the rows of the union of the step event sources
    sh_hash,   \* the journey hash of the entity
    sh_indices,   \* step_<k>_event_index for every step k
    sh_pc,  \* position in the compilation of the journey
    pk_first,   \* the columns of the Pick the base model was made with
    pk_second,   \* the columns of the Pick applied to the base model
    pk_base,   \* the compiled base layer and context
    pk_out,   \* the layer and context compile_pick_source returned
    pk_pc,  \* position in the compilation
    nc_used,   \* QueryContext._used_ref_names
    nc_texts,   \* QueryContext._used_ref_names_any_substring_text
    nc_reserved,   \* the names add_reserved_name was given for an exact match
    nc_handed,   \* the names the allocator has returned, in order
    nc_forks,  \* the names of the ForkedQueryContexts made
    rs_sql,   \* custom_sql, a sequence of characters
    rs_alias_to_sql,   \* alias_to_sql_func, as the text of every alias
    rs_stack,   \* the active _resolve calls, innermost last
    rs_seen,   \* seen: the aliases being resolved
    rs_n,   \* num_total_resolutions
    rs_result,  \* how the call ended
    fz_handlers,   \* QueryLayer.on_finalize_handlers
    fz_registered,   \* every handler appended to the list so far, in order
    fz_fired,   \* the handlers that were called, in order
    fz_finalized,  \* the number of finalized() calls made
    im_storage,   \* IdentifiableMap.storage
    im_calls,  \* the number of calls made on the map
    kp_root,   \* the root the keypaths are resolved against
    kp_values,   \* the list handed to resolve_all_nested_keypaths
    kp_resolved,   \* the list it returned
    kp_pc   \* position of the caller

builderVars == <<models, sources, handles, wire0, ncalls>>

inVars == <<in_self, in_other, in_expr, in_value, in_pc>>

funnelVars == <<ms_events, ms_steps, ms_time_limit, ms_dialect, ms_top, ms_pc,
                ms_union, ms_journeys, ms_limited, ms_rows, ms_funnel>>

plannerVars == <<pl_table, pl_ops, pl_plan, pl_rows>>

weekVars == <<wk_x, wk_dialect, wk_offset, wk_sql, wk_value, wk_py, wk_pc>>

liftVars == <<lf_live, lf_preprocessed, lf_expr, lf_sql, lf_n>>

wireVars == <<wr_node, wr_wire, wr_back, wr_pc>>

execVars == <<ex_pc, ex_sql_only, ex_handlers, ex_registered, ex_raised, ex_compile, ex_data, ex_sent, ex_escaped>>

namingVars == <<nm_identifier, nm_namespaces, nm_call, nm_raised>>

stepHashVars == <<sh_i, sh_j, sh_rows, sh_hash, sh_indices, sh_pc>>

pickVars == <<pk_first, pk_second, pk_base, pk_out, pk_pc>>

namesVars == <<nc_used, nc_texts, nc_reserved, nc_handed, nc_forks>>

resolveVars == <<rs_sql, rs_alias_to_sql, rs_stack, rs_seen, rs_n, rs_result>>

finalizeVars == <<fz_handlers, fz_registered, fz_fired, fz_finalized>>

idMapVars == <<im_storage, im_calls>>

keyPathVars == <<kp_root, kp_values, kp_resolved, kp_pc>>

vars == <<builderVars, inVars, funnelVars, plannerVars, weekVars, liftVars, wireVars, execVars, namingVars, stepHashVars, pickVars, namesVars, resolveVars, finalizeVars, idMapVars, keyPathVars>>

notBuilderVars == <<inVars, funnelVars, plannerVars,
    weekVars,
    liftVars,
    wireVars,
    execVars,
    namingVars,
    stepHashVars,
    pickVars,
    namesVars,
    resolveVars,
    finalizeVars,
    idMapVars,
    keyPathVars>>

notInVars == <<builderVars, funnelVars, plannerVars,
    weekVars,
    liftVars,
    wireVars,
    execVars,
    namingVars,
    stepHashVars,
    pickVars,
    namesVars,
    resolveVars,
    finalizeVars,
    idMapVars,
    keyPathVars>>

notFunnelVars == <<builderVars, inVars, plannerVars,
    weekVars,
    liftVars,
    wireVars,
    execVars,
    namingVars,
    stepHashVars,
    pickVars,
    namesVars,
    resolveVars,
    finalizeVars,
    idMapVars,
    keyPathVars>>

notPlannerVars == <<builderVars, inVars, funnelVars,
    weekVars,
    liftVars,
    wireVars,
    execVars,
    namingVars,
    stepHashVars,
    pickVars,
    namesVars,
    resolveVars,
    finalizeVars,
    idMapVars,
    keyPathVars>>

notWeekVars == <<builderVars,
    inVars,
    funnelVars,
    plannerVars,
    liftVars,
    wireVars,
    execVars,
    namingVars,
    stepHashVars,
    pickVars,
    namesVars,
    resolveVars,
    finalizeVars,
    idMapVars,
    keyPathVars>>

notLiftVars == <<builderVars,
    inVars,
    funnelVars,
    plannerVars,
    weekVars,
    wireVars,
    execVars,
    namingVars,
    stepHashVars,
    pickVars,
    namesVars,
    resolveVars,
    finalizeVars,
    idMapVars,
    keyPathVars>>

notWireVars == <<builderVars,
    inVars,
    funnelVars,
    plannerVars,
    weekVars,
    liftVars,
    execVars,
    namingVars,
    stepHashVars,
    pickVars,
    namesVars,
    resolveVars,
    finalizeVars,
    idMapVars,
    keyPathVars>>

notExecVars == <<builderVars,
    inVars,
    funnelVars,
    plannerVars,
    weekVars,
    liftVars,
    wireVars,
    namingVars,
    stepHashVars,
    pickVars,
    namesVars,
    resolveVars,
    finalizeVars,
    idMapVars,
    keyPathVars>>

notNamingVars == <<builderVars,
    inVars,
    funnelVars,
    plannerVars,
    weekVars,
    liftVars,
    wireVars,
    execVars,
    stepHashVars,
    pickVars,
    namesVars,
    resolveVars,
    finalizeVars,
    idMapVars,
    keyPathVars>>

notStepHashVars == <<builderVars,
    inVars,
    funnelVars,
    plannerVars,
    weekVars,
    liftVars,
    wireVars,
    execVars,
    namingVars,
    pickVars,
    namesVars,
    resolveVars,
    finalizeVars,
    idMapVars,
    keyPathVars>>

notPickVars == <<builderVars,
    inVars,
    funnelVars,
    plannerVars,
    weekVars,
    liftVars,
    wireVars,
    execVars,
    namingVars,
    stepHashVars,
    namesVars,
    resolveVars,
    finalizeVars,
    idMapVars,
    keyPathVars>>

notNamesVars == <<builderVars,
    inVars,
    funnelVars,
    plannerVars,
    weekVars,
    liftVars,
    wireVars,
    execVars,
    namingVars,
    stepHashVars,
    pickVars,
    resolveVars,
    finalizeVars,
    idMapVars,
    keyPathVars>>

notResolveVars == <<builderVars,
    inVars,
    funnelVars,
    plannerVars,
    weekVars,
    liftVars,
    wireVars,
    execVars,
    namingVars,
    stepHashVars,
    pickVars,
    namesVars,
    finalizeVars,
    idMapVars,
    keyPathVars>>

notFinalizeVars == <<builderVars,
    inVars,
    funnelVars,
    plannerVars,
    weekVars,
    liftVars,
    wireVars,
    execVars,
    namingVars,
    stepHashVars,
    pickVars,
    namesVars,
    resolveVars,
    idMapVars,
    keyPathVars>>

notIdMapVars == <<builderVars,
    inVars,
    funnelVars,
    plannerVars,
    weekVars,
    liftVars,
    wireVars,
    execVars,
    namingVars,
    stepHashVars,
    pickVars,
    namesVars,
    resolveVars,
    finalizeVars,
    keyPathVars>>

notKeyPathVars == <<builderVars,
    inVars,
    funnelVars,
    plannerVars,
    weekVars,
    liftVars,
    wireVars,
    execVars,
    namingVars,
    stepHashVars,
    pickVars,
    namesVars,
    resolveVars,
    finalizeVars,
    idMapVars>>

(***************************************************************************)
(* Bounds                                                                  *)
(***************************************************************************)
MaxCalls == 2          \* builder calls made by the calling program

NoSource == 0

Last(s) == s[Len(s)]

SeqToSet(s) == {s[i] : i \in 1..Len(s)}

(***************************************************************************)
(* IdentifiableMap (utils/identifiable.py): a list keyed by identifier;    *)
(* add replaces the element with the same identifier in place, else        *)
(* appends.                                                                *)
(***************************************************************************)
IdIndex(storage, ident) ==
    IF \E i \in 1..Len(storage) : storage[i].identifier = ident
    THEN CHOOSE i \in 1..Len(storage) :
            /\ storage[i].identifier = ident
            /\ \A j \in 1..(i - 1) : storage[j].identifier # ident
    ELSE 0

IdMapAdd(storage, value) ==
    LET idx == IdIndex(storage, value.identifier)
    IN  IF idx # 0 THEN [storage EXCEPT ![idx] = value]
        ELSE Append(storage, value)

(***************************************************************************)
(* Wire form of Sources and Models (Model._to_wire_format and the          *)
(* Source._to_wire_format family): the structural content, with heap       *)
(* references expanded.                                                    *)
(***************************************************************************)
RECURSIVE SourceWire(_, _, _)
RECURSIVE ModelWire(_, _, _)

NamespaceWire(ms, ss, n) ==
    [identifier |-> n.identifier,
     nestedModel |-> ModelWire(ms, ss, n.nested_model),
     throughForeignKeyAttr |-> n.through]

SourceWire(ms, ss, s) ==
    IF s = NoSource THEN <<>>
    ELSE LET node == ss[s]
         IN  CASE node.type = "union" ->
                    [type |-> node.type, base |-> SourceWire(ms, ss, node.base),
                     arg |-> node.arg, other |-> SourceWire(ms, ss, node.other)]
               [] node.type = "joinOne" ->
                    [type |-> node.type, base |-> SourceWire(ms, ss, node.base),
                     arg |-> node.arg, other |-> ModelWire(ms, ss, node.other)]
               [] OTHER ->
                    [type |-> node.type, base |-> SourceWire(ms, ss, node.base),
                     arg |-> node.arg, other |-> <<>>]

ModelWire(ms, ss, h) ==
    IF h = 0 THEN <<>>
    ELSE LET m == ms[h]
         IN  [source |-> SourceWire(ms, ss, m.source),
              attributes |-> m.attributes,
              measures |-> m.measures,
              namespaces |-> [i \in 1..Len(m.namespaces) |->
                                 NamespaceWire(ms, ss, m.namespaces[i])],
              primaryKey |-> m.primary_key,
              activitySchema |-> m.activity_schema,
              customMeta |-> m.custom_meta]

(***************************************************************************)
(* copy.deepcopy over the heap: every object reachable from the Model is   *)
(* copied into a fresh heap cell.  A heap state is [ms, ss]; the copy      *)
(* operators return [ms, ss, id] with id the copy's handle.                *)
(***************************************************************************)
RECURSIVE CopySource(_, _, _)
RECURSIVE CopyModel(_, _, _)
RECURSIVE CopyNamespaces(_, _, _, _)

CopySource(ms, ss, s) ==
    IF s = NoSource THEN [ms |-> ms, ss |-> ss, id |-> NoSource]
    ELSE LET node == ss[s]
             b == CopySource(ms, ss, node.base)
             o == CASE node.type = "union" -> CopySource(b.ms, b.ss, node.other)
                    [] node.type = "joinOne" ->
                            CopyModel(b.ms, b.ss, node.other)
                    [] OTHER -> [ms |-> b.ms, ss |-> b.ss, id |-> node.other]
             copied == [node EXCEPT !.base = b.id, !.other = o.id]
         IN  [ms |-> o.ms, ss |-> Append(o.ss, copied), id |-> Len(o.ss) + 1]

\* copies namespaces i..Len(ns) of a list; returns [ms, ss, id] with id the
\* copied list
CopyNamespaces(ms, ss, ns, i) ==
    IF i > Len(ns) THEN [ms |-> ms, ss |-> ss, id |-> <<>>]
    ELSE LET c == CopyModel(ms, ss, ns[i].nested_model)
             rest == CopyNamespaces(c.ms, c.ss, ns, i + 1)
         IN  [ms |-> rest.ms, ss |-> rest.ss,
              id |-> <<[ns[i] EXCEPT !.nested_model = c.id]>> \o rest.id]

CopyModel(ms, ss, h) ==
    LET m == ms[h]
        s == CopySource(ms, ss, m.source)
        n == CopyNamespaces(s.ms, s.ss, m.namespaces, 1)
        copied == [m EXCEPT !.source = s.id, !.namespaces = n.id]
    IN  [ms |-> Append(n.ms, copied), ss |-> n.ss, id |-> Len(n.ms) + 1]

(***************************************************************************)
(* The mutators of model/model.py: each changes `self` in place.  They     *)
(* return the heap [ms, ss] after the change.                              *)
(***************************************************************************)
Heap(ms, ss) == [ms |-> ms, ss |-> ss]

NewSource(type, base, arg, other) ==
    [type |-> type, base |-> base, arg |-> arg, other |-> other]

\* self._source = <node>
SetSource(ms, ss, self, node) ==
    Heap([ms EXCEPT ![self].source = Len(ss) + 1], Append(ss, node))

Column(ident) == [identifier |-> ident]

ModelNamespace(ident, nested) ==
    [identifier |-> ident, nested_model |-> nested, through |-> ""]

ActivitySchema == [group |-> "user_id", timestamp |-> "ts", event_key |-> "event"]

NoActivitySchema == <<>>

EmptyModel ==
    [source |-> NoSource, attributes |-> <<>>, measures |-> <<>>,
     namespaces |-> <<>>, primary_key |-> "id",
     activity_schema |-> NoActivitySchema, custom_meta |-> {}]

mut_with_source(ms, ss, self, table) ==
    SetSource(ms, ss, self, NewSource("tableName", NoSource, table, 0))

mut_with_attributes(ms, ss, self, ident) ==
    Heap([ms EXCEPT ![self].attributes = IdMapAdd(@, Column(ident))], ss)

mut_with_measures(ms, ss, self, ident) ==
    Heap([ms EXCEPT ![self].measures = IdMapAdd(@, Column(ident))], ss)

mut_with_primary_key(ms, ss, self, ident) ==
    Heap([ms EXCEPT ![self].primary_key = ident], ss)

\* with_join_one(joined, foreign_key=fk, named=name, drop_unmatched=drop):
\* the relation holds the caller's `joined` Model itself
mut_with_join_one(ms, ss, self, joined, fk, name, drop) ==
    LET relation == [ModelNamespace(name, joined) EXCEPT !.through = fk]
        ms1 == [ms EXCEPT ![self].namespaces = IdMapAdd(@, relation)]
    IN  SetSource(ms1, ss, self,
                  NewSource("joinOne", ms[self].source,
                            [relation |-> name, foreign_key |-> fk,
                             drop_unmatched |-> drop], joined))

mut_with_activity_schema(ms, ss, self) ==
    Heap([ms EXCEPT ![self].activity_schema = ActivitySchema], ss)

mut_aggregate(ms, ss, self, groups, measures) ==
    LET h1 == SetSource(ms, ss, self,
                        NewSource("aggregate", ms[self].source,
                                  [groups |-> groups, measures |-> measures], 0))
    IN  Heap([h1.ms EXCEPT ![self].attributes =
                                [i \in 1..Len(groups \o measures) |->
                                    Column((groups \o measures)[i])],
                            ![self].measures = <<>>,
                            ![self].namespaces = <<>>],
             h1.ss)

mut_pick(ms, ss, self, columns) ==
    LET h1 == SetSource(ms, ss, self,
                        NewSource("pick", ms[self].source, columns, 0))
    IN  Heap([h1.ms EXCEPT ![self].attributes =
                                [i \in 1..Len(columns) |-> Column(columns[i])],
                            ![self].namespaces = <<>>,
                            ![self].measures = <<>>],
             h1.ss)

mut_filter(ms, ss, self, condition) ==
    SetSource(ms, ss, self, NewSource("filter", ms[self].source, condition, 0))

mut_sort(ms, ss, self, sort, dir) ==
    SetSource(ms, ss, self,
              NewSource("sort", ms[self].source, [sort |-> sort, dir |-> dir], 0))

mut_limit(ms, ss, self, count) ==
    SetSource(ms, ss, self, NewSource("limit", ms[self].source, count, 0))

\* union_all(other): the new source holds other's Source object itself
mut_union_all(ms, ss, self, other) ==
    LET h1 == SetSource(ms, ss, self,
                        NewSource("union", ms[self].source, <<>>, ms[other].source))
    IN  Heap([h1.ms EXCEPT ![self].namespaces = <<>>], h1.ss)

mut_with_custom_meta(ms, ss, self, name, value) ==
    Heap([ms EXCEPT ![self].custom_meta =
                        {p \in @ : p[1] # name} \cup {<<name, value>>}], ss)

\* match_steps(steps): the events table is a deep copy of `self` taken before
\* the transformation; every step's namespace holds that one copy
RECURSIVE ReattachJoins(_, _, _, _, _)
ReattachJoins(ms, ss, self, preserved, i) ==
    IF i > Len(preserved) THEN Heap(ms, ss)
    ELSE LET n == preserved[i]
             h1 == mut_with_join_one(ms, ss, self, n.nested_model, n.through,
                                     n.identifier, FALSE)
         IN  ReattachJoins(h1.ms, h1.ss, self, preserved, i + 1)

RECURSIVE AddStepNamespaces(_, _, _, _)
AddStepNamespaces(storage, steps, events_model, i) ==
    IF i > Len(steps) THEN storage
    ELSE AddStepNamespaces(IdMapAdd(storage, ModelNamespace(steps[i], events_model)),
                           steps, events_model, i + 1)

mut_match_steps(ms, ss, self, steps) ==
    LET events == CopyModel(ms, ss, self)
        activity_schema == ms[self].activity_schema
        h1 == SetSource(events.ms, events.ss, self,
                        NewSource("matchSteps", ms[self].source,
                                  [steps |-> steps, activity_schema |-> activity_schema],
                                  0))
        preserved == SelectSeq(ms[self].namespaces,
                               LAMBDA n : /\ n.identifier \notin SeqToSet(steps)
                                          /\ n.through = activity_schema.group)
        ms2 == [h1.ms EXCEPT ![self].namespaces = preserved]
        h3 == ReattachJoins(ms2, h1.ss, self, preserved, 1)
    IN  Heap([h3.ms EXCEPT
                ![self].namespaces = AddStepNamespaces(@, steps, events.id, 1),
                ![self].attributes =
                    <<Column(activity_schema.group), Column("last_matched_step_name"),
                      Column("last_matched_step_index")>>,
                ![self].primary_key = activity_schema.group,
                ![self].measures =
                    <<Column("entities")>> \o
                    [i \in 1..Len(steps) |-> Column(steps[i])],
                ![self].activity_schema = NoActivitySchema],
             h3.ss)

\* the variables of SpecKeyPath while another specification runs
KeyPathIdle ==
    /\ kp_root = <<>>
    /\ kp_values = <<>>
    /\ kp_resolved = <<>>
    /\ kp_pc = "idle"

\* the variables of SpecIdMap while another specification runs
IdMapIdle ==
    /\ im_storage = <<>>
    /\ im_calls = 0

\* the variables of SpecFinalize while another specification runs
FinalizeIdle ==
    /\ fz_handlers = <<>>
    /\ fz_registered = <<>>
    /\ fz_fired = <<>>
    /\ fz_finalized = 0

\* the variables of SpecResolve while another specification runs
ResolveIdle ==
    /\ rs_sql = <<>>
    /\ rs_alias_to_sql = <<>>
    /\ rs_stack = <<>>
    /\ rs_seen = {}
    /\ rs_n = 0
    /\ rs_result = <<>>

\* the variables of SpecNames while another specification runs
NamesIdle ==
    /\ nc_used = {}
    /\ nc_texts = <<>>
    /\ nc_reserved = {}
    /\ nc_handed = <<>>
    /\ nc_forks = {}

\* the variables of SpecPick while another specification runs
PickIdle ==
    /\ pk_first = <<>>
    /\ pk_second = <<>>
    /\ pk_base = <<>>
    /\ pk_out = <<>>
    /\ pk_pc = "idle"

\* the variables of SpecStepHash while another specification runs
StepHashIdle ==
    /\ sh_i = 0
    /\ sh_j = 0
    /\ sh_rows = {}
    /\ sh_hash = <<>>
    /\ sh_indices = <<>>
    /\ sh_pc = "idle"

\* the variables of SpecNaming while another specification runs
NamingIdle ==
    /\ nm_identifier = <<>>
    /\ nm_namespaces = {}
    /\ nm_call = <<>>
    /\ nm_raised = FALSE

\* the variables of SpecExec while another specification runs
ExecIdle ==
    /\ ex_pc = "idle"
    /\ ex_sql_only = FALSE
    /\ ex_handlers = <<>>
    /\ ex_registered = <<>>
    /\ ex_raised = ""
    /\ ex_compile = <<>>
    /\ ex_data = <<>>
    /\ ex_sent = 0
    /\ ex_escaped = FALSE

\* the variables of SpecWire while another specification runs
WireIdle ==
    /\ wr_node = <<>>
    /\ wr_wire = <<>>
    /\ wr_back = <<>>
    /\ wr_pc = "idle"

\* the variables of SpecLift while another specification runs
LiftIdle ==
    /\ lf_live = {}
    /\ lf_preprocessed = {}
    /\ lf_expr = <<>>
    /\ lf_sql = <<>>
    /\ lf_n = 0

\* the variables of SpecWeek while another specification runs
WeekIdle ==
    /\ wk_x = <<>>
    /\ wk_dialect = ""
    /\ wk_offset = 0
    /\ wk_sql = <<>>
    /\ wk_value = <<>>
    /\ wk_py = <<>>
    /\ wk_pc = "idle"

\* the variables of SpecFunnel while another specification runs
FunnelIdle ==
    /\ ms_events = {}
    /\ ms_steps = <<>>
    /\ ms_time_limit = 0
    /\ ms_dialect = "duckdb"
    /\ ms_top = [start_index |-> 0, by_name |-> FALSE, name |-> "entities"]
    /\ ms_pc = "idle"
    /\ ms_union = {}
    /\ ms_journeys = {}
    /\ ms_limited = {}
    /\ ms_rows = {}
    /\ ms_funnel = <<>>

\* the variables of SpecPlanner while another specification runs
PlannerIdle ==
    /\ pl_table = <<>>
    /\ pl_ops = <<>>
    /\ pl_plan = <<>>
    /\ pl_rows = <<>>

\* the variables of SpecIn while another specification runs
InIdle ==
    /\ in_self = 0
    /\ in_other = <<>>
    /\ in_expr = <<>>
    /\ in_value = "none"
    /\ in_pc = "idle"

(***************************************************************************)
(* builder_method (utils/builder.py): safe_copy = deepcopy(self); the      *)
(* mutator runs on safe_copy, which is returned.                           *)
(***************************************************************************)
\* an aliasing builder: the mutator would run on `self` itself
safe_copy_aliased(ms, ss, self) == [ms |-> ms, ss |-> ss, id |-> self]

safe_copy(ms, ss, self) == CopyModel(ms, ss, self)

\* The heap after as_builder_func, given the mutator applied to the copy.
\* Returned(r, h) is the handle as_builder_func returns.
Snapshot(ms, ss, old) ==
    [h \in 1..Len(ms) |->
        IF h \in DOMAIN old THEN old[h] ELSE ModelWire(ms, ss, h)]

Returns(h0, h1, ret) ==
    /\ ncalls < MaxCalls
    /\ models' = h1.ms
    /\ sources' = h1.ss
    /\ handles' = handles \cup {ret}
    /\ wire0' = Snapshot(h1.ms, h1.ss, wire0)
    /\ ncalls' = ncalls + 1
    /\ UNCHANGED notBuilderVars

Tables == {"events", "users"}
Identifiers == {"user_id", "amount"}
RelationNames == {"users", "visit"}
StepLists == {<<"visit">>, <<"visit", "purchase">>}

with_source(self, table) ==
    LET c == safe_copy(models, sources, self)
    IN  Returns(c, mut_with_source(c.ms, c.ss, c.id, table), c.id)

with_attributes(self, ident) ==
    LET c == safe_copy(models, sources, self)
    IN  Returns(c, mut_with_attributes(c.ms, c.ss, c.id, ident), c.id)

with_measures(self, ident) ==
    LET c == safe_copy(models, sources, self)
    IN  Returns(c, mut_with_measures(c.ms, c.ss, c.id, ident), c.id)

with_primary_key(self, ident) ==
    LET c == safe_copy(models, sources, self)
    IN  Returns(c, mut_with_primary_key(c.ms, c.ss, c.id, ident), c.id)

with_join_one(self, joined, fk, name, drop) ==
    LET c == safe_copy(models, sources, self)
    IN  Returns(c, mut_with_join_one(c.ms, c.ss, c.id, joined, fk, name, drop), c.id)

with_activity_schema(self) ==
    LET c == safe_copy(models, sources, self)
    IN  Returns(c, mut_with_activity_schema(c.ms, c.ss, c.id), c.id)

aggregate(self, groups, measures) ==
    LET c == safe_copy(models, sources, self)
    IN  Returns(c, mut_aggregate(c.ms, c.ss, c.id, groups, measures), c.id)

\* raises ValueError without an activity schema: nothing is returned
match_steps(self, steps) ==
    /\ models[self].activity_schema # NoActivitySchema
    /\ LET c == safe_copy(models, sources, self)
       IN  Returns(c, mut_match_steps(c.ms, c.ss, c.id, steps), c.id)

pick(self, columns) ==
    LET c == safe_copy(models, sources, self)
    IN  Returns(c, mut_pick(c.ms, c.ss, c.id, columns), c.id)

filter(self, condition) ==
    LET c == safe_copy(models, sources, self)
    IN  Returns(c, mut_filter(c.ms, c.ss, c.id, condition), c.id)

sort(self, key, dir) ==
    LET c == safe_copy(models, sources, self)
    IN  Returns(c, mut_sort(c.ms, c.ss, c.id, key, dir), c.id)

limit(self, count) ==
    LET c == safe_copy(models, sources, self)
    IN  Returns(c, mut_limit(c.ms, c.ss, c.id, count), c.id)

union_all(self, other) ==
    LET c == safe_copy(models, sources, self)
    IN  Returns(c, mut_union_all(c.ms, c.ss, c.id, other), c.id)

with_custom_meta(self, name, value) ==
    LET c == safe_copy(models, sources, self)
    IN  Returns(c, mut_with_custom_meta(c.ms, c.ss, c.id, name, value), c.id)

\* the variables of SpecBuilder while another specification runs
BuilderIdle ==
    /\ models = <<>>
    /\ sources = <<>>
    /\ handles = {}
    /\ wire0 = <<>>
    /\ ncalls = 0

\* Model(connection, table): the constructor runs with_source.mutate on the
\* new object
InitBuilder ==
    /\ \E table \in Tables :
         LET h == mut_with_source(<<EmptyModel>>, <<>>, 1, table)
         IN  /\ models = h.ms
             /\ sources = h.ss
             /\ wire0 = Snapshot(h.ms, h.ss, <<>>)
    /\ handles = {1}
    /\ ncalls = 0
    /\ InIdle
    /\ FunnelIdle
    /\ PlannerIdle
    /\ WeekIdle
    /\ LiftIdle
    /\ WireIdle
    /\ ExecIdle
    /\ NamingIdle
    /\ StepHashIdle
    /\ PickIdle
    /\ NamesIdle
    /\ ResolveIdle
    /\ FinalizeIdle
    /\ IdMapIdle
    /\ KeyPathIdle

NextBuilder ==
    \E self \in handles :
        \/ \E t \in Tables : with_source(self, t)
        \/ \E a \in Identifiers : with_attributes(self, a)
        \/ with_measures(self, "amount")
        \/ with_primary_key(self, "user_id")
        \/ \E j \in handles, fk \in {"user_id", "amount"}, drop \in BOOLEAN :
              with_join_one(self, j, fk, "users", drop)
        \/ with_activity_schema(self)
        \/ aggregate(self, <<"user_id">>, <<"amount">>)
        \/ \E steps \in StepLists : match_steps(self, steps)
        \/ pick(self, <<"amount">>)
        \/ filter(self, "amount > 0")
        \/ sort(self, "amount", "asc")
        \/ limit(self, 1)
        \/ \E o \in handles : union_all(self, o)
        \/ with_custom_meta(self, "owner", "me")

SpecBuilder == InitBuilder /\ [][NextBuilder]_vars

\* C1: builder purity.  After any sequence of builder calls, every Model
\* ever constructed (the receivers, the arguments and the results) still has
\* the wire form it had when it was constructed.
C1_BuilderPurity ==
    \A h \in 1..Len(models) : ModelWire(models, sources, h) = wire0[h]

\* two builder calls were made on the initial Model, and one of the results
\* holds another Model of the caller (a join or a union)
C1_Witness ==
    /\ ncalls >= 2
    /\ Cardinality(handles) >= 3
    /\ \E h \in handles :
          /\ models[h].source # NoSource
          /\ sources[models[h].source].type \in {"joinOne", "union"}

(***************************************************************************)
(* ColumnExpression.in_ over an iterable                                   *)
(* (model/column_expression/column_expression.py), its compilation         *)
(* (run/compile/column_expression/compilers/binary_op.py, sql_function.py) *)
(* and the value the database gives the compiled expression.               *)
(***************************************************************************)
MaxInLen == 2          \* length of the list handed to in_
MaxInValue == 2        \* values in that list: None and 1..MaxInValue

None == 0              \* Python None; NULL in the database

PyValues == 0..MaxInValue
ColumnValues == 0..(MaxInValue + 1)

RECURSIVE SeqsUpTo(_, _)
SeqsUpTo(S, n) ==
    IF n = 0 THEN {<<>>}
    ELSE LET shorter == SeqsUpTo(S, n - 1)
         IN  shorter \cup {Append(q, v) : q \in {r \in shorter : Len(r) = n - 1}, v \in S}

ColumnName == [type |-> "columnName"]
PyValue(v) == [type |-> "pyValue", value |-> v]
BinaryOp(left, op, right) == [type |-> "binaryOp", left |-> left, op |-> op, right |-> right]
SqlFunction(name, args) == [type |-> "sqlFunction", function_name |-> name, args |-> args]

\* the iterable branch of in_
in_iterable(self, other) ==
    LET non_null_values == SelectSeq(other, LAMBDA v : v # None)
        has_null == \E i \in 1..Len(other) : other[i] = None
        conditions == IF non_null_values # <<>>
                      THEN <<BinaryOp(self, "IN", PyValue(non_null_values))>>
                      ELSE <<>>
        logical_func == IF has_null THEN "or" ELSE "and"
        null_check_expr == IF has_null THEN BinaryOp(self, "=", PyValue(None))
                           ELSE BinaryOp(self, "!=", PyValue(None))
    IN  IF conditions = <<>> THEN null_check_expr
        ELSE SqlFunction(logical_func, Append(conditions, null_check_expr))

\* SQL truth values: "T", "F" and "N" (NULL)
SqlAnd(a, b) == IF a = "F" \/ b = "F" THEN "F"
                ELSE IF a = "N" \/ b = "N" THEN "N" ELSE "T"

SqlOr(a, b) == IF a = "T" \/ b = "T" THEN "T"
               ELSE IF a = "N" \/ b = "N" THEN "N" ELSE "F"

RECURSIVE SqlFold(_, _, _)
SqlFold(name, vals, i) ==
    IF i = Len(vals) THEN vals[i]
    ELSE IF name = "and" THEN SqlAnd(vals[i], SqlFold(name, vals, i + 1))
    ELSE SqlOr(vals[i], SqlFold(name, vals, i + 1))

\* left IN (v1, ..., vn) for a non-empty list of non-NULL literals
SqlInList(x, list) ==
    IF x = None THEN "N"
    ELSE IF \E i \in 1..Len(list) : list[i] = x THEN "T" ELSE "F"

\* compile_none_comparison: `= None` is IS NULL, `!= None` is IS NOT NULL
SqlNoneComparison(op, x) ==
    IF op = "=" THEN (IF x = None THEN "T" ELSE "F")
    ELSE (IF x = None THEN "F" ELSE "T")

\* value of the compiled expression for a record whose column holds x
RECURSIVE EvalColumnExpression(_, _)
EvalColumnExpression(expr, x) ==
    IF expr.type = "sqlFunction"
    THEN SqlFold(expr.function_name,
                 [i \in 1..Len(expr.args) |-> EvalColumnExpression(expr.args[i], x)], 1)
    ELSE IF expr.op = "IN" THEN SqlInList(x, expr.right.value)
    ELSE SqlNoneComparison(expr.op, x)

\* the caller evaluates `column.in_(other)`
CallIn ==
    /\ in_pc = "call"
    /\ in_expr' = in_iterable(ColumnName, in_other)
    /\ in_pc' = "built"
    /\ UNCHANGED <<in_self, in_other, in_value, notInVars>>

\* the expression is compiled and the database evaluates it for the record
RunIn ==
    /\ in_pc = "built"
    /\ in_value' = EvalColumnExpression(in_expr, in_self)
    /\ in_pc' = "done"
    /\ UNCHANGED <<in_self, in_other, in_expr, notInVars>>

InitIn ==
    /\ in_self \in ColumnValues
    /\ in_other \in SeqsUpTo(PyValues, MaxInLen)
    /\ in_expr = <<>>
    /\ in_value = "none"
    /\ in_pc = "call"
    /\ BuilderIdle
    /\ FunnelIdle
    /\ PlannerIdle
    /\ WeekIdle
    /\ LiftIdle
    /\ WireIdle
    /\ ExecIdle
    /\ NamingIdle
    /\ StepHashIdle
    /\ PickIdle
    /\ NamesIdle
    /\ ResolveIdle
    /\ FinalizeIdle
    /\ IdMapIdle
    /\ KeyPathIdle

NextIn == CallIn \/ RunIn

SpecIn == InitIn /\ [][NextIn]_vars

\* membership as the docstring of in_ states it
InMember(x, other) == \E i \in 1..Len(other) : other[i] = x

\* C8: x.in_(values) is True exactly for the records whose x is in values
\* (a NULL x counts iff values contains None) and False, never NULL, for
\* every other record; with an empty list it is False for every record.
C8_InIsMembership ==
    in_pc = "done" =>
        in_value = IF InMember(in_self, in_other) THEN "T" ELSE "F"

(***************************************************************************)
(* match_steps and funnel: Model.funnel (model/model.py) and the           *)
(* Match-Steps compiler (run/compile/source/compilers/match_steps.py),     *)
(* with the relations its CTEs hold when the database runs them.           *)
(***************************************************************************)
MaxEvents == 2         \* records in a generated events table
MaxJourneyEvents == 3  \* events of the one entity of a three-step journey

FunnelUsers == {1, 2}
EventNames == {"ad_impression", "visit", "other_event"}
Timestamps == 1..3
TimeLimits == {0, 1, 2}           \* 0: no time_limit (None, or a zero timedelta)
Dialects == {"duckdb", "clickhouse"}

Event(u, e, t) == [user_id |-> u, event |-> e, ts |-> t]

\* the events of the funnel docstring (timestamps are days of January 2024)
DocumentedEvents ==
    { Event(0, "ad_impression", 1), Event(0, "visit", 2), Event(0, "purchase", 4),
      Event(1, "ad_impression", 1), Event(1, "visit", 2), Event(1, "purchase", 3),
      Event(1, "purchase", 4),
      Event(2, "ad_impression", 1), Event(2, "visit", 2),
      Event(3, "ad_impression", 1), Event(3, "visit", 2),
      Event(4, "ad_impression", 1),
      Event(5, "visit", 1), Event(5, "purchase", 2),
      Event(6, "other_event", 1) }

DocumentedSteps == <<"ad_impression", "visit", "purchase">>

RECURSIVE SubsetsUpTo(_, _)
SubsetsUpTo(S, n) ==
    IF n = 0 THEN {{}}
    ELSE LET smaller == SubsetsUpTo(S, n - 1)
         IN  smaller \cup {T \cup {x} : T \in smaller, x \in S}

CHARS ==
    << "A", "B", "C", "D", "E", "F", "G", "H", "I", "J", "K", "L", "M",
       "N", "O", "P", "Q", "R", "S", "T", "U", "V", "W", "X", "Y", "Z",
       "a", "b", "c", "d", "e", "f", "g", "h", "i", "j", "k", "l", "m",
       "n", "o", "p", "q", "r", "s", "t", "u", "v", "w", "x", "y", "z",
       "0", "1", "2", "3", "4", "5", "6", "7", "8", "9" >>

\* _step_hash_id(step_index), step_index counted from 0
step_hash_id(step_index) == CHARS[step_index + 1]

\* the code point of a step hash id: what ORDER BY compares
AsciiCode(c) ==
    LET i == CHOOSE k \in 1..Len(CHARS) : CHARS[k] = c
    IN  IF i <= 26 THEN 64 + i
        ELSE IF i <= 52 THEN 96 + (i - 26)
        ELSE 47 + (i - 52)

\* step_event_sources and their union: one row per (event, step) whose
\* step condition the event passes
StepEventsUnion(events, steps) ==
    LET matches == {p \in events \X (1..Len(steps)) : p[1].event = steps[p[2]]}
    IN  { [group |-> p[1].user_id, ts |-> p[1].ts, step |-> p[2] - 1,
           hash_id |-> step_hash_id(p[2] - 1)] : p \in matches }

\* row_number() over (partition by __group__ order by __timestamp__ asc):
\* rows of one group with one timestamp are numbered in an order the
\* database chooses, here the order `tie` gives their steps
EventIndex(rows, r, tie) ==
    1 + Cardinality({q \in rows : q.group = r.group /\ q.ts < r.ts})
      + Cardinality({q \in rows : /\ q.group = r.group
                                  /\ q.ts = r.ts
                                  /\ tie[q.step + 1] < tie[r.step + 1]})

\* ORDER BY __timestamp__, __step_hash_id__ DESC inside the journey hash
HashBefore(q, r) ==
    \/ q.ts < r.ts
    \/ q.ts = r.ts /\ AsciiCode(q.hash_id) > AsciiCode(r.hash_id)

\* _build_journey_hash for one group
journey_hash(rows, g) ==
    LET mine == {r \in rows : r.group = g}
        pos(r) == 1 + Cardinality({q \in mine : HashBefore(q, r)})
    IN  [p \in 1..Cardinality(mine) |->
            (CHOOSE r \in mine : pos(r) = p).hash_id]

\* SUBSTRING(s, start): the characters of s from position start on
Substring(s, start) == IF start > Len(s) THEN <<>> ELSE SubSeq(s, start, Len(s))

\* _regex_extract(target, "<c>.*"): the match from the first c to the end
\* of the string, or NULL (here None) when there is no c
RegexExtractLen(target, c) ==
    IF \E p \in 1..Len(target) : target[p] = c
    THEN Len(target) + 1 - (CHOOSE p \in 1..Len(target) :
                              /\ target[p] = c
                              /\ \A q \in 1..(p - 1) : target[q] # c)
    ELSE None

\* _get_event_index_col searching the whole journey hash for every step
get_event_index_col_whole_hash(hash, index, indices) ==
    IF index > 0 /\ indices[index] = None THEN None
    ELSE LET matched == RegexExtractLen(hash, step_hash_id(index))
         IN  IF matched = None THEN None ELSE Len(hash) - matched + 1

\* _get_event_index_col: LENGTH(hash) - LENGTH(regex_extract(...)) + 1,
\* NULL when the previous step's index or the match is NULL
get_event_index_col(hash, index, indices) ==
    IF index > 0 /\ indices[index] = None THEN None
    ELSE LET target == IF index > 0 THEN Substring(hash, indices[index] + 1)
                       ELSE hash
             matched == RegexExtractLen(target, step_hash_id(index))
         IN  IF matched = None THEN None ELSE Len(hash) - matched + 1

\* _timestamp_diff_within: (ts2 - ts1) < time_limit, NULL on a NULL operand
timestamp_diff_within(ts1, ts2, time_limit) ==
    IF ts1 = None \/ ts2 = None THEN "N"
    ELSE IF ts2 - ts1 < time_limit THEN "T" ELSE "F"

\* the groups of the unique_groups_layer: AggregateSource(source.base,
\* groups=[group]) over the whole events table
unique_groups_matching(events) ==
    {e.user_id : e \in {x \in events : x.event \in SeqToSet(ms_steps)}}

unique_groups(events) == {e.user_id : e \in events}

\* the __timestamp__ of the events row with this group and event index,
\* NULL when the outer join finds none
JoinedTimestamp(rows, g, index) ==
    IF index # None /\ \E r \in rows : r.group = g /\ r.event_index = index
    THEN (CHOOSE r \in rows : r.group = g /\ r.event_index = index).ts
    ELSE None

JoinedStep(rows, g, index) ==
    IF index # None /\ \E r \in rows : r.group = g /\ r.event_index = index
    THEN (CHOOSE r \in rows : r.group = g /\ r.event_index = index).step
    ELSE None

\* events_layer: the union of the step event sources with __event_index__
CompileEventsLayer ==
    /\ ms_pc = "events"
    /\ \E tie \in Permutations(1..Len(ms_steps)) :
         LET rows == StepEventsUnion(ms_events, ms_steps)
         IN  ms_union' = { [group |-> r.group, ts |-> r.ts, step |-> r.step,
                            hash_id |-> r.hash_id,
                            event_index |-> EventIndex(rows, r, tie)] : r \in rows }
    /\ ms_pc' = "journeys"
    /\ UNCHANGED <<ms_events, ms_steps, ms_time_limit, ms_dialect, ms_top,
                   ms_journeys, ms_limited, ms_rows, ms_funnel, notFunnelVars>>

\* journeys_query: one row per group with its journey hash
BuildJourneysQuery ==
    /\ ms_pc = "journeys"
    /\ ms_journeys' = { [group |-> g, hash |-> journey_hash(ms_union, g),
                         step_event_index |-> <<>>] :
                          g \in {r.group : r \in ms_union} }
    /\ ms_pc' = "steps"
    /\ UNCHANGED <<ms_events, ms_steps, ms_time_limit, ms_dialect, ms_top,
                   ms_union, ms_limited, ms_rows, ms_funnel, notFunnelVars>>

\* _form_journeys_query_step for the next step index: a CTE that adds
\* step_<index>_event_index to every journey
FormJourneysQueryStep ==
    /\ ms_pc = "steps"
    /\ \E index \in 0..(Len(ms_steps) - 1) :
         /\ \A j \in ms_journeys : Len(j.step_event_index) = index
         /\ ms_journeys' =
              { [j EXCEPT !.step_event_index =
                    Append(@, get_event_index_col(j.hash, index, @))] :
                 j \in ms_journeys }
         /\ ms_limited' =
              IF index = Len(ms_steps) - 1 THEN ms_journeys' ELSE ms_limited
         /\ ms_pc' = IF index < Len(ms_steps) - 1 THEN "steps"
                     ELSE IF ms_time_limit # 0 /\ ms_dialect = "clickhouse"
                     THEN "time_limit" ELSE "final"
    /\ UNCHANGED <<ms_events, ms_steps, ms_time_limit, ms_dialect, ms_top,
                   ms_union, ms_rows, ms_funnel, notFunnelVars>>

\* form_time_limit_cte (ClickHouse): IF(within, index, NULL) for steps > 0
FormTimeLimitCte ==
    /\ ms_pc = "time_limit"
    /\ ms_limited' =
         { [j EXCEPT !.step_event_index =
              [i \in 1..Len(ms_steps) |->
                 IF i = 1 THEN @[i]
                 ELSE IF timestamp_diff_within(
                            JoinedTimestamp(ms_union, j.group, @[1]),
                            JoinedTimestamp(ms_union, j.group, @[i]),
                            ms_time_limit) = "T"
                 THEN @[i] ELSE None]] : j \in ms_journeys }
    /\ ms_pc' = "final"
    /\ UNCHANGED <<ms_events, ms_steps, ms_time_limit, ms_dialect, ms_top,
                   ms_union, ms_journeys, ms_rows, ms_funnel, notFunnelVars>>

\* entity_base_layer and final_layer: every unique group, outer joined to
\* its journey and, per step, to the events row with the step's index
FinalLayerRow(g) ==
    LET indices == IF \E j \in ms_limited : j.group = g
                   THEN (CHOOSE j \in ms_limited : j.group = g).step_event_index
                   ELSE [i \in 1..Len(ms_steps) |-> None]
        ts(i) == JoinedTimestamp(ms_union, g, indices[i])
        joins(i) ==
            IF i > 1 /\ ms_time_limit # 0 /\ ms_dialect # "clickhouse"
            THEN timestamp_diff_within(ts(1), ts(i), ms_time_limit) = "T"
            ELSE ts(i) # None
    IN  [group |-> g,
         timestamp |-> [i \in 1..Len(ms_steps) |->
                           IF joins(i) THEN ts(i) ELSE None],
         step |-> [i \in 1..Len(ms_steps) |->
                      IF joins(i) THEN JoinedStep(ms_union, g, indices[i])
                      ELSE None]]

CompileFinalLayer ==
    /\ ms_pc = "final"
    /\ ms_rows' = {FinalLayerRow(g) : g \in unique_groups(ms_events)}
    /\ ms_pc' = "matched"
    /\ UNCHANGED <<ms_events, ms_steps, ms_time_limit, ms_dialect, ms_top,
                   ms_union, ms_journeys, ms_limited, ms_funnel, notFunnelVars>>

\* Model.funnel over the matched model: the count measures, folded into
\* (step, count) rows and sorted by step index
Funnel ==
    /\ ms_pc = "matched"
    /\ LET all_step_value_columns ==
              <<<<ms_top.name, Cardinality(ms_rows)>>>> \o
              [i \in 1..Len(ms_steps) |->
                  <<ms_steps[i],
                    Cardinality({r \in ms_rows : r.timestamp[i] # None})>>]
       IN  ms_funnel' =
              IF ms_top.by_name THEN all_step_value_columns
              ELSE SubSeq(all_step_value_columns, ms_top.start_index + 2,
                          Len(all_step_value_columns))
    /\ ms_pc' = "done"
    /\ UNCHANGED <<ms_events, ms_steps, ms_time_limit, ms_dialect, ms_top,
                   ms_union, ms_journeys, ms_limited, ms_rows, notFunnelVars>>

InitFunnel ==
    /\ \/ /\ ms_events = DocumentedEvents
          /\ ms_steps = DocumentedSteps
          /\ ms_time_limit = 0
          /\ ms_top \in {[start_index |-> 0, by_name |-> FALSE, name |-> "entities"],
                         [start_index |-> 0, by_name |-> TRUE, name |-> "entities"],
                         [start_index |-> 0, by_name |-> TRUE, name |-> "users"]}
       \/ /\ ms_events \in SubsetsUpTo(
                              {Event(u, e, t) : u \in FunnelUsers, e \in EventNames,
                                                t \in Timestamps}, MaxEvents)
          /\ ms_steps = <<"ad_impression", "visit">>
          /\ ms_time_limit \in TimeLimits
          /\ ms_top = [start_index |-> 0, by_name |-> FALSE, name |-> "entities"]
       \/ /\ ms_events \in SubsetsUpTo(
                              {Event(1, e, t) : e \in EventNames, t \in Timestamps},
                              MaxJourneyEvents)
          /\ ms_steps = <<"ad_impression", "visit", "other_event">>
          /\ ms_time_limit \in TimeLimits
          /\ ms_top = [start_index |-> 0, by_name |-> FALSE, name |-> "entities"]
    /\ ms_dialect \in Dialects
    /\ ms_pc = "events"
    /\ ms_union = {}
    /\ ms_journeys = {}
    /\ ms_limited = {}
    /\ ms_rows = {}
    /\ ms_funnel = <<>>
    /\ BuilderIdle
    /\ InIdle
    /\ PlannerIdle
    /\ WeekIdle
    /\ LiftIdle
    /\ WireIdle
    /\ ExecIdle
    /\ NamingIdle
    /\ StepHashIdle
    /\ PickIdle
    /\ NamesIdle
    /\ ResolveIdle
    /\ FinalizeIdle
    /\ IdMapIdle
    /\ KeyPathIdle

NextFunnel ==
    \/ CompileEventsLayer
    \/ BuildJourneysQuery
    \/ FormJourneysQueryStep
    \/ FormTimeLimitCte
    \/ CompileFinalLayer
    \/ Funnel

SpecFunnel == InitFunnel /\ [][NextFunnel]_vars

\* funnel was run on the events and the steps of its docstring
DocumentedFunnelDone ==
    /\ ms_pc = "done"
    /\ ms_events = DocumentedEvents
    /\ ms_steps = DocumentedSteps

C10_TimeLimitInclusive ==
    (ms_pc \in {"matched", "done"} /\ ms_time_limit # 0) =>
        \A r \in ms_rows, j \in ms_journeys, i \in 2..Len(ms_steps) :
            (j.group = r.group /\ j.step_event_index[i] # None) =>
                LET ts0 == JoinedTimestamp(ms_union, j.group, j.step_event_index[1])
                    tsi == JoinedTimestamp(ms_union, j.group, j.step_event_index[i])
                IN  (r.timestamp[i] = None) <=> (tsi - ts0 > ms_time_limit)

(***************************************************************************)
(* The source planner: compile_source and the source compilers             *)
(* (run/compile/source), QueryLayer (run/compile/query_layer.py) and       *)
(* QueryContext (run/compile/context.py).                                  *)
(*                                                                         *)
(* A Source is the sequence of its operations, the table first; a query    *)
(* is the record of the clauses of one SELECT.                             *)
(***************************************************************************)
SourceOp ==
    [type |-> "", name |-> "", ns |-> "", col |-> "", dir |-> "", n |-> 0,
     cols |-> <<>>, rel |-> <<>>, pk |-> "", drop |-> FALSE]

TableNameSource(table) == <<[SourceOp EXCEPT !.type = "table", !.name = table]>>
FilterSource(ns, c, min) == [SourceOp EXCEPT !.type = "filter", !.ns = ns, !.col = c, !.n = min]
SortSource(c, dir) == [SourceOp EXCEPT !.type = "sort", !.col = c, !.dir = dir]
LimitSource(n) == [SourceOp EXCEPT !.type = "limit", !.n = n]
PickSource(cols) == [SourceOp EXCEPT !.type = "pick", !.cols = cols]
AggregateSource(group) == [SourceOp EXCEPT !.type = "aggregate", !.col = group]
JoinOneSource(name, rel, fk, pk, drop) ==
    [SourceOp EXCEPT !.type = "joinOne", !.name = name, !.rel = rel, !.col = fk,
                     !.pk = pk, !.drop = drop]
UnionSource(union_source) == [SourceOp EXCEPT !.type = "union", !.rel = union_source]

Front(s) == SubSeq(s, 1, Len(s) - 1)

\* F applied to the value of v, with v evaluated once
With(v, F(_)) == CHOOSE r \in {F(x) : x \in {v}} : TRUE

\* a table reference: a physical table or a CTE, under an alias
TableRef(name) == [kind |-> "table", name |-> name, alias |-> name]
CteRef(name) == [kind |-> "cte", name |-> name, alias |-> name]

NoRef == [kind |-> "none", name |-> "", alias |-> ""]

\* sa.select("*").select_from(ref)
SelectStarFrom(ref) ==
    [from |-> ref, columns |-> <<>>, joins |-> <<>>, where |-> <<>>,
     group_by |-> <<>>, having |-> <<>>, order_by |-> <<>>, limit |-> None,
     union_all |-> <<>>,
     with_only_columns |-> 0]   \* the number of with_only_columns calls on it

\* QueryContext.__init__
QueryContext == [used_ref_names |-> {}, cache |-> <<>>, ctes |-> <<>>]

\* QueryLayer.__init__ with ctx, query and main reference bound
QueryLayer(ctx_name, ref) ==
    [ctx_name |-> ctx_name, query |-> SelectStarFrom(ref), source |-> <<>>,
     has_selections |-> FALSE, is_aggregated |-> FALSE, is_joined |-> FALSE,
     is_order_dependent |-> FALSE, main |-> ref, name_to_ref |-> <<>>,
     used_names |-> {}, on_finalize_handlers |-> <<>>]

\* can_aggregate testing the ordering only
can_aggregate_order_only(layer) == ~layer.is_order_dependent

can_aggregate(layer) ==
    ~layer.has_selections /\ ~layer.is_aggregated /\ ~layer.is_order_dependent

can_set_selections(layer) == ~layer.has_selections /\ ~layer.is_aggregated

needs_column_disambiguation(layer) == layer.is_joined /\ ~layer.is_aggregated

\* QueryContext._get_free_name: the name, with the context that reserved it
RECURSIVE get_free_name(_, _, _, _)
get_free_name(ctx, base_name, index, always_include_index) ==
    LET proposed_name == IF index <= 1 /\ ~always_include_index THEN base_name
                         ELSE base_name \o "_" \o ToString(index)
    IN  IF proposed_name \notin ctx.used_ref_names
        THEN [name |-> proposed_name,
              ctx |-> [ctx EXCEPT !.used_ref_names = @ \cup {proposed_name}]]
        ELSE get_free_name(ctx, base_name, index + 1, always_include_index)

next_alias_name(ctx, name) == get_free_name(ctx, name, 1, FALSE)

next_cte_name(ctx, ctx_name) == get_free_name(ctx, ctx_name \o "_layer", 1, TRUE)

fork_cte_names(ctx, name) == get_free_name(ctx, name, 1, FALSE)

\* QueryContext.get_alias_checkpoint: the reference cached for the source,
\* or None; the cache is a dict, so the entry written last wins
HasCheckpoint(ctx, source) == \E i \in 1..Len(ctx.cache) : ctx.cache[i].source = source

get_alias_checkpoint_never(ctx, source) == NoRef

get_alias_checkpoint(ctx, source) ==
    IF HasCheckpoint(ctx, source)
    THEN LET i == CHOOSE k \in 1..Len(ctx.cache) :
                     /\ ctx.cache[k].source = source
                     /\ \A j \in (k + 1)..Len(ctx.cache) : ctx.cache[j].source # source
         IN  ctx.cache[i].ref
    ELSE NoRef

add_alias_checkpoint(ctx, source, ref) ==
    [ctx EXCEPT !.cache = Append(@, [source |-> source, ref |-> ref])]

\* NamespaceInfo of a joined relation
NamedRef(layer, name) ==
    (CHOOSE i \in 1..Len(layer.name_to_ref) : layer.name_to_ref[i].name = name)

\* the on_finalize closure of compile_join_one_source: the JOIN is added
\* only if the relation's namespace was used
on_finalize_always(layer, handler) ==
    [layer EXCEPT !.query.joins =
        Append(@, [name |-> handler.join_name,
                   ref |-> layer.name_to_ref[NamedRef(layer, handler.join_name)].ref,
                   on |-> handler.join_condition,
                   isouter |-> ~handler.drop_unmatched])]

on_finalize(layer, handler) ==
    IF handler.join_name \notin layer.used_names THEN layer
    ELSE [layer EXCEPT !.query.joins =
            Append(@, [name |-> handler.join_name,
                   ref |-> layer.name_to_ref[NamedRef(layer, handler.join_name)].ref,
                       on |-> handler.join_condition,
                       isouter |-> ~handler.drop_unmatched])]

\* QueryLayer.finalized: the handlers run in the order they were added
RECURSIVE finalized(_)
finalized(layer) ==
    IF layer.on_finalize_handlers = <<>> THEN layer
    ELSE With(on_finalize([layer EXCEPT !.on_finalize_handlers = Tail(@)],
                          Head(layer.on_finalize_handlers)),
              LAMBDA handled : finalized(handled))

\* QueryLayer.chained: the finalized layer becomes a CTE the new layer
\* selects from; the CTE is registered as the checkpoint of layer.source
chained(layer, ctx) ==
    LET base == finalized(layer)
        free == next_cte_name(ctx, base.ctx_name)
        chained_cte_ref == CteRef(free.name)
        ctx1 == [free.ctx EXCEPT !.ctes =
                    Append(@, [name |-> free.name, query |-> base.query,
                               source |-> layer.source])]
    IN  [layer |-> QueryLayer(base.ctx_name, chained_cte_ref),
         ctx |-> IF layer.source # <<>>
                 THEN add_alias_checkpoint(ctx1, layer.source, chained_cte_ref)
                 ELSE ctx1]

\* QueryLayerNamespaces.set_joined
set_joined(name_to_ref, name, ref) ==
    IF \E i \in 1..Len(name_to_ref) : name_to_ref[i].name = name
    THEN [i \in 1..Len(name_to_ref) |->
            IF name_to_ref[i].name = name THEN [name |-> name, ref |-> ref]
            ELSE name_to_ref[i]]
    ELSE Append(name_to_ref, [name |-> name, ref |-> ref])

ColumnExpr(ns, name) == [ns |-> ns, name |-> name]

\* compile_column_name_column_expression: the compiled column and the layer,
\* whose used_names gained the namespace if the column was qualified by it
compile_column_name(expr, layer) ==
    LET namespace_identifier ==
            IF needs_column_disambiguation(layer) THEN expr.ns ELSE ""
        table == IF ~needs_column_disambiguation(layer) THEN ""
                 ELSE IF namespace_identifier # ""
                 THEN layer.name_to_ref[NamedRef(layer, namespace_identifier)].ref.alias
                 ELSE layer.main.alias
    IN  [column |-> [table |-> table, name |-> expr.name],
         layer |-> IF namespace_identifier # ""
                   THEN [layer EXCEPT !.used_names = @ \cup {namespace_identifier}]
                   ELSE layer]

compile_table_name_source(op, ctx, ctx_name) ==
    [layer |-> QueryLayer(ctx_name, TableRef(op.name)), ctx |-> ctx]

compile_filter_source(op, base) ==
    LET c == compile_column_name(ColumnExpr(op.ns, op.col), base.layer)
        condition == [column |-> c.column, min |-> op.n]
    IN  [layer |-> IF c.layer.is_aggregated
                   THEN [c.layer EXCEPT !.query.having = Append(@, condition)]
                   ELSE [c.layer EXCEPT !.query.where = Append(@, condition)],
         ctx |-> base.ctx]

compile_sort_source(op, base) ==
    LET c == compile_column_name(ColumnExpr("", op.col), base.layer)
    IN  [layer |-> [c.layer EXCEPT
                      !.query.order_by = Append(@, [column |-> c.column, dir |-> op.dir]),
                      !.is_order_dependent = TRUE],
         ctx |-> base.ctx]

compile_limit_source(op, base) ==
    [layer |-> [base.layer EXCEPT !.query.limit = op.n, !.is_order_dependent = TRUE],
     ctx |-> base.ctx]

\* _is_passthrough_select: every picked column is a plain column name and
\* the names are exactly the names the base query selects
is_passthrough_select(op, query) ==
    LET selected_names == {op.cols[i].name : i \in 1..Len(op.cols)}
        base_names == {query.columns[i].label : i \in 1..Len(query.columns)}
    IN  IF Cardinality(selected_names) # Len(op.cols) THEN FALSE
        ELSE selected_names = base_names

\* ColumnExpression.named on a column name expression
NamedColumnExpr(ns, name, identifier) ==
    [ns |-> ns, name |-> name, identifier |-> identifier]

\* ColumnExpression.identifier: the name given with named(), else the
\* default identifier, the column name
Identifier(expr) ==
    IF "identifier" \in DOMAIN expr THEN expr.identifier ELSE expr.name

RECURSIVE CompileColumns(_, _, _)
CompileColumns(cols, layer, i) ==
    IF i > Len(cols) THEN [columns |-> <<>>, layer |-> layer]
    ELSE LET c == compile_column_name(cols[i], layer)
             rest == CompileColumns(cols, c.layer, i + 1)
         IN  [columns |-> <<[column |-> c.column, label |-> Identifier(cols[i]),
                             func |-> "column"]>> \o rest.columns,
              layer |-> rest.layer]

compile_pick_source(op, base) ==
    IF is_passthrough_select(op, base.layer.query) THEN base
    ELSE LET l == IF can_set_selections(base.layer) THEN base
                  ELSE chained(base.layer, base.ctx)
             picked == CompileColumns(op.cols, [l.layer EXCEPT !.has_selections = TRUE], 1)
         IN  [layer |-> [picked.layer EXCEPT !.query.columns = picked.columns,
                                          !.query.with_only_columns = @ + 1],
              ctx |-> l.ctx]

\* groups = [op.col], measures = [count()]
compile_aggregate_source(op, base) ==
    LET l == IF can_aggregate(base.layer) THEN base
             ELSE chained(base.layer, base.ctx)
        groups == CompileColumns(<<ColumnExpr("", op.col)>>, l.layer, 1)
        measures == <<[column |-> [table |-> "", name |-> "*"], label |-> "count",
                       func |-> "count"]>>
    IN  [layer |-> [groups.layer EXCEPT
                      !.is_aggregated = TRUE,
                      !.has_selections = TRUE,
                      !.query.columns = groups.columns \o measures,
                      !.query.with_only_columns = @ + 1,
                      !.query.group_by = @ \o <<1>>],
         ctx |-> l.ctx]

RECURSIVE compile_source(_, _, _)
RECURSIVE compile_join_one_source(_, _)
RECURSIVE compile_union_source(_, _)

compile_func(op, base) ==
    CASE op.type = "filter" -> compile_filter_source(op, base)
      [] op.type = "sort" -> compile_sort_source(op, base)
      [] op.type = "limit" -> compile_limit_source(op, base)
      [] op.type = "pick" -> compile_pick_source(op, base)
      [] op.type = "aggregate" -> compile_aggregate_source(op, base)
      [] op.type = "joinOne" -> compile_join_one_source(op, base)

compile_source(source, ctx, ctx_name) ==
    LET cached_alias_ref == get_alias_checkpoint(ctx, source)
    IN  IF cached_alias_ref # NoRef
        THEN [layer |-> QueryLayer(ctx_name, cached_alias_ref), ctx |-> ctx]
        ELSE IF Len(source) = 1
        THEN With(compile_table_name_source(source[1], ctx, ctx_name), LAMBDA r :
                [layer |-> [r.layer EXCEPT !.source = source], ctx |-> r.ctx])
        ELSE With(compile_source(Front(source), ctx, ctx_name), LAMBDA base :
             With(IF Last(source).type = "union"
                  THEN compile_union_source(source, base)
                  ELSE compile_func(Last(source), base), LAMBDA r :
                [layer |-> [r.layer EXCEPT !.source = source], ctx |-> r.ctx]))

\* compile_union_source: `base` is compile_source(source.base, ctx).  The
\* first union makes the base query a compound select and chains it; a
\* union of a union appends to the compound select of the CTE in place.
compile_union_source(source, base) ==
    With(finalized(base.layer), LAMBDA base_layer :
    With(fork_cte_names(base.ctx, "union_target"), LAMBDA fork :
    With(compile_source(Last(source).rel, fork.ctx, fork.name), LAMBDA u :
    With(finalized(u.layer), LAMBDA union_layer :
        IF Last(Front(source)).type = "union"
        THEN [layer |-> base_layer,
              ctx |-> [u.ctx EXCEPT !.ctes =
                  [i \in 1..Len(u.ctx.ctes) |->
                      IF u.ctx.ctes[i].name = base_layer.query.from.name
                      THEN [u.ctx.ctes[i] EXCEPT !.query.union_all =
                               Append(@, union_layer.query)]
                      ELSE u.ctx.ctes[i]]]]
        ELSE chained([base_layer EXCEPT !.query.union_all =
                         Append(@, union_layer.query)], u.ctx)))))

compile_join_one_source(op, base) ==
    With(IF can_set_selections(base.layer) THEN base
         ELSE chained(base.layer, base.ctx), LAMBDA l :
    With(fork_cte_names(l.ctx, "joined_" \o op.name), LAMBDA joined_ctx :
    With(compile_source(op.rel, joined_ctx.ctx, joined_ctx.name), LAMBDA joined :
    LET join_name == op.name
        joined_layer == finalized(joined.layer)
        is_table == Len(op.rel) = 1
        cte == next_cte_name(joined.ctx, joined_ctx.name)
        ctx2 == IF is_table THEN joined.ctx
                ELSE [cte.ctx EXCEPT !.ctes =
                        Append(@, [name |-> cte.name, query |-> joined_layer.query,
                                   source |-> op.rel])]
        alias == next_alias_name(ctx2, join_name)
        joined_reference ==
            [(IF is_table THEN joined_layer.main ELSE CteRef(cte.name))
                EXCEPT !.alias = alias.name]
        layer == [l.layer EXCEPT
                    !.name_to_ref = set_joined(@, join_name, joined_reference),
                    !.is_joined = TRUE]
        frozen_layer == layer
        join_condition ==
            [left |-> compile_column_name(ColumnExpr(op.ns, op.col),
                                          frozen_layer).column,
             right |-> compile_column_name(ColumnExpr(join_name, op.pk),
                                           frozen_layer).column]
    IN  [layer |-> [layer EXCEPT !.on_finalize_handlers =
                      Append(@, [join_name |-> join_name,
                                 join_condition |-> join_condition,
                                 drop_unmatched |-> op.drop])],
         ctx |-> alias.ctx])))

\* ---- the emitted SQL, run over a small database ----
\* db maps a table name to its rows in scan order; a row maps column names
\* to values, None is NULL

Field(row, name) == IF name \in DOMAIN row THEN row[name] ELSE None

\* the value of a compiled column on a row of FROM ... JOIN ...
ColumnValue(q, w, col) ==
    IF col.table \in {"", q.from.alias} THEN Field(w.m, col.name)
    ELSE LET matches == {i \in 1..Len(w.j) : w.j[i].alias = col.table}
         IN  IF matches = {} THEN None
             ELSE Field(w.j[CHOOSE i \in matches : TRUE].row, col.name)

RECURSIVE Concat(_)
Concat(seqs) == IF seqs = <<>> THEN <<>> ELSE Head(seqs) \o Concat(Tail(seqs))

\* [LEFT OUTER] JOIN right ON left-column = right-column
SqlJoin(q, ws, join, right) ==
    LET Joined(w) ==
            LET lhs == ColumnValue(q, w, join.on.left)
                matches == SelectSeq(right, LAMBDA r :
                              lhs # None /\ Field(r, join.on.right.name) = lhs)
            IN  IF matches = <<>>
                THEN IF join.isouter
                     THEN <<[w EXCEPT !.j = Append(@, [alias |-> join.ref.alias,
                                                       row |-> <<>>])]>>
                     ELSE <<>>
                ELSE [i \in 1..Len(matches) |->
                        [w EXCEPT !.j = Append(@, [alias |-> join.ref.alias,
                                                   row |-> matches[i]])]]
    IN  Concat([i \in 1..Len(ws) |-> Joined(ws[i])])

\* WHERE / HAVING: every condition is column >= min; NULL >= min is not true
SqlFilter(q, ws, conditions) ==
    SelectSeq(ws, LAMBDA w : \A i \in 1..Len(conditions) :
        LET v == ColumnValue(q, w, conditions[i].column)
        IN  v # None /\ v >= conditions[i].min)

\* GROUP BY 1 with count(*): one row per group, in order of first appearance
SqlGroupBy(q, ws) ==
    LET vals == [i \in 1..Len(ws) |-> ColumnValue(q, ws[i], q.columns[1].column)]
        firsts == SelectSeq([i \in 1..Len(ws) |-> i],
                            LAMBDA i : \A j \in 1..(i - 1) : vals[j] # vals[i])
    IN  [k \in 1..Len(firsts) |->
            [m |-> (q.columns[1].label :> vals[firsts[k]]) @@
                   ("count" :> Cardinality({j \in 1..Len(ws) : vals[j] = vals[firsts[k]]})),
             j |-> <<>>]]

\* ORDER BY k1, k2, ...: the first key is the primary one; NULL sorts as the
\* least value, so first when ascending and last when descending
SqlPrecedes(q, a, b) ==
    \E k \in 1..Len(q.order_by) :
        /\ \A m \in 1..(k - 1) : ColumnValue(q, a, q.order_by[m].column)
                                 = ColumnValue(q, b, q.order_by[m].column)
        /\ IF q.order_by[k].dir = "asc"
           THEN ColumnValue(q, a, q.order_by[k].column) < ColumnValue(q, b, q.order_by[k].column)
           ELSE ColumnValue(q, a, q.order_by[k].column) > ColumnValue(q, b, q.order_by[k].column)

SqlOrderBy(q, ws) ==
    LET rank(i) == 1 + Cardinality({j \in 1..Len(ws) :
                        \/ SqlPrecedes(q, ws[j], ws[i])
                        \/ ~SqlPrecedes(q, ws[i], ws[j]) /\ j < i})
    IN  [r \in 1..Len(ws) |-> ws[CHOOSE i \in 1..Len(ws) : rank(i) = r]]

SqlLimit(q, ws) ==
    IF q.limit = None \/ q.limit >= Len(ws) THEN ws ELSE SubSeq(ws, 1, q.limit)

\* the SELECT list; SELECT * keeps every column, and of two columns of the
\* same name the one of the main relation (then of the earlier join) stays
SqlSelect(q, w) ==
    IF q.group_by # <<>> THEN w.m
    ELSE IF q.columns = <<>>
    THEN LET names == DOMAIN w.m \cup UNION {DOMAIN w.j[i].row : i \in 1..Len(w.j)}
         IN  [n \in names |->
                IF n \in DOMAIN w.m THEN w.m[n]
                ELSE LET i == CHOOSE k \in 1..Len(w.j) :
                                /\ n \in DOMAIN w.j[k].row
                                /\ \A l \in 1..(k - 1) : n \notin DOMAIN w.j[l].row
                     IN  w.j[i].row[n]]
    ELSE [n \in {q.columns[i].label : i \in 1..Len(q.columns)} |->
            ColumnValue(q, w, q.columns[CHOOSE i \in 1..Len(q.columns) :
                                           q.columns[i].label = n].column)]

RECURSIVE EvalQuery(_, _, _)
RECURSIVE SqlJoins(_, _, _, _, _)

\* A CTE is in scope everywhere but inside itself; a statement whose CTE
\* selects from itself is refused by the database and gives no rows.
RefRows(ref, ctes, db) ==
    IF ref.kind = "table" THEN db[ref.name]
    ELSE IF \A k \in 1..Len(ctes) : ctes[k].name # ref.name THEN <<>>
    ELSE EvalQuery(ctes[CHOOSE k \in 1..Len(ctes) : ctes[k].name = ref.name].query,
                   SelectSeq(ctes, LAMBDA c : c.name # ref.name), db)

SqlJoins(q, ws, i, ctes, db) ==
    IF i > Len(q.joins) THEN ws
    ELSE With(RefRows(q.joins[i].ref, ctes, db), LAMBDA right :
         With(SqlJoin(q, ws, q.joins[i], right), LAMBDA joined :
            SqlJoins(q, joined, i + 1, ctes, db)))

EvalQuery(q, ctes, db) ==
    With(RefRows(q.from, ctes, db), LAMBDA from :
    With(SqlJoins(q, [i \in 1..Len(from) |-> [m |-> from[i], j |-> <<>>]], 1, ctes, db),
         LAMBDA joined :
    With(SqlFilter(q, joined, q.where), LAMBDA filtered :
    With(IF q.group_by = <<>> THEN filtered ELSE SqlGroupBy(q, filtered), LAMBDA grouped :
    With(SqlFilter(q, grouped, q.having), LAMBDA having :
    With(IF q.order_by = <<>> THEN having ELSE SqlOrderBy(q, having), LAMBDA ordered :
    With(SqlLimit(q, ordered), LAMBDA limited :
        [i \in 1..Len(limited) |-> SqlSelect(q, limited[i])]
            \o Concat([k \in 1..Len(q.union_all) |->
                          EvalQuery(q.union_all[k], ctes, db)]))))))))

\* run(model): compile the source, finalize the last layer, run the query
Compile(source) == compile_source(source, QueryContext, "main")

Run(source, db) ==
    With(Compile(source), LAMBDA c :
        EvalQuery(finalized(c.layer).query, c.ctx.ctes, db))

\* ---- models built over the table "t" and run against a database ----
MaxOps == 3            \* operations applied to the table
MaxJoins == 2          \* relations joined to one model

UTable == <<[uid |-> 1, y |-> 1], [uid |-> 2, y |-> 2]>>

\* t(id, x, fk): id is unique, fk 9 matches no record of "u" or "t"
BaseTables ==
    { <<[id |-> 1, x |-> 1, fk |-> 1], [id |-> 2, x |-> 2, fk |-> 9],
        [id |-> 3, x |-> 3, fk |-> 2]>>,
      <<[id |-> 1, x |-> 2, fk |-> 2], [id |-> 2, x |-> 1, fk |-> 9],
        [id |-> 3, x |-> 2, fk |-> 1]>> }

Database(t) == [t |-> t, u |-> UTable]

Perms(s) ==
    { [i \in 1..Len(s) |-> s[p[i]]] :
        p \in {f \in [1..Len(s) -> 1..Len(s)] :
                 \A i, j \in 1..Len(s) : f[i] = f[j] => i = j} }

\* Model._attributes after the operations: pick and aggregate replace them
RECURSIVE ModelColumns(_)
ModelColumns(ops) ==
    LET op == Last(ops)
    IN  CASE op.type = "table" -> IF op.name = "t" THEN {"id", "x", "fk"} ELSE {"uid", "y"}
          [] op.type = "pick" -> {op.cols[i].name : i \in 1..Len(op.cols)}
          [] op.type = "aggregate" -> {op.col, "count"}
          [] OTHER -> ModelColumns(Front(ops))

\* Model._namespaces after the operations: pick and aggregate clear them
RECURSIVE ModelJoins(_)
ModelJoins(ops) ==
    LET op == Last(ops)
    IN  CASE op.type \in {"table", "pick", "aggregate", "union"} -> {}
          [] op.type = "joinOne" -> ModelJoins(Front(ops)) \cup {op}
          [] OTHER -> ModelJoins(Front(ops))

JoinNames == <<"a", "b", "c">>

JoinCount(ops) == Cardinality({i \in 1..Len(ops) : ops[i].type = "joinOne"})

\* the relations a model is joined to: a table, a filtered table, the model itself
Relations(ops) ==
    {TableNameSource("u"), TableNameSource("u") \o <<FilterSource("", "y", 2)>>}
        \cup (IF JoinCount(ops) = 0 /\ "id" \in ModelColumns(ops) THEN {ops} ELSE {})

Plan(ops) ==
    With(Compile(ops), LAMBDA c :
        [query |-> finalized(c.layer).query, ctes |-> c.ctx.ctes, cache |-> c.ctx.cache])

\* model.<op>(...) followed by run(model)
Applied(op) ==
    /\ Len(pl_ops) <= MaxOps
    /\ pl_ops' = Append(pl_ops, op)
    /\ pl_plan' = Plan(pl_ops')
    /\ pl_rows' = Run(pl_ops', Database(pl_table))
    /\ UNCHANGED pl_table

Filter ==
    /\ \/ "x" \in ModelColumns(pl_ops) /\ Applied(FilterSource("", "x", 2))
       \/ \E j \in ModelJoins(pl_ops) :
            \E c \in ModelColumns(j.rel) \cap {"x", "y"} :
                Applied(FilterSource(j.name, c, 1))
    /\ UNCHANGED notPlannerVars

Sort ==
    /\ \/ "x" \in ModelColumns(pl_ops) /\ Applied(SortSource("x", "desc"))
       \/ "id" \in ModelColumns(pl_ops) /\ Applied(SortSource("id", "asc"))
    /\ UNCHANGED notPlannerVars

Limit ==
    /\ \E n \in {1, 2} : Applied(LimitSource(n))
    /\ UNCHANGED notPlannerVars

Pick ==
    /\ {"id", "x", "fk"} \subseteq ModelColumns(pl_ops)
    /\ Applied(PickSource(<<ColumnExpr("", "id"), ColumnExpr("", "x"),
                            ColumnExpr("", "fk")>>))
    /\ UNCHANGED notPlannerVars

Aggregate ==
    /\ "x" \in ModelColumns(pl_ops)
    /\ Applied(AggregateSource("x"))
    /\ UNCHANGED notPlannerVars

\* The key of a relation: what a join condition compares with.
RelationKey(rel) == IF "uid" \in ModelColumns(rel) THEN "uid" ELSE "id"

\* model.with_join_one(rel, foreign_key=fk), or with condition= comparing
\* the key of a relation joined before with the key of the new relation
JoinOne ==
    /\ "fk" \in ModelColumns(pl_ops)
    /\ JoinCount(pl_ops) < MaxJoins
    /\ \E rel \in Relations(pl_ops), drop \in BOOLEAN :
         LET join == JoinOneSource(JoinNames[JoinCount(pl_ops) + 1], rel, "fk",
                                   RelationKey(rel), drop)
         IN  \/ Applied(join)
             \/ \E j \in ModelJoins(pl_ops) :
                    Applied([join EXCEPT !.ns = j.name, !.col = RelationKey(j.rel)])
    /\ UNCHANGED notPlannerVars

\* model.union_all(other): the other model is the table or a filter of it
UnionAll ==
    /\ ModelColumns(pl_ops) = {"id", "x", "fk"}
    /\ \E other \in {TableNameSource("t"),
                      TableNameSource("t") \o <<FilterSource("", "x", 2)>>} :
         Applied(UnionSource(other))
    /\ UNCHANGED notPlannerVars

InitPlanner ==
    /\ pl_table \in BaseTables
    /\ pl_ops = TableNameSource("t")
    /\ pl_plan = Plan(pl_ops)
    /\ pl_rows = Run(pl_ops, Database(pl_table))
    /\ BuilderIdle
    /\ InIdle
    /\ FunnelIdle
    /\ WeekIdle
    /\ LiftIdle
    /\ WireIdle
    /\ ExecIdle
    /\ NamingIdle
    /\ StepHashIdle
    /\ PickIdle
    /\ NamesIdle
    /\ ResolveIdle
    /\ FinalizeIdle
    /\ IdMapIdle
    /\ KeyPathIdle

NextPlanner == Filter \/ Sort \/ Limit \/ Pick \/ Aggregate \/ JoinOne \/ UnionAll

SpecPlanner == InitPlanner /\ [][NextPlanner]_vars

\* every SELECT of the emitted SQL: the CTEs and the final query
PlanQueries ==
    {pl_plan.query} \cup {pl_plan.ctes[i].query : i \in 1..Len(pl_plan.ctes)}

\* some expression of the model reads a column of the joined relation
Referenced(name) ==
    \E i \in 1..Len(pl_ops) : pl_ops[i].type = "filter" /\ pl_ops[i].ns = name

JoinOps == {i \in 1..Len(pl_ops) : pl_ops[i].type = "joinOne"}

\* C2: a JoinOne relation that no downstream expression references emits no
\* JOIN: every JOIN of the emitted SQL, in the final query and in every CTE,
\* is the JOIN of a relation some expression references
C2_UnreferencedJoinElided ==
    pl_ops # <<>> =>
        \A q \in PlanQueries : \A k \in 1..Len(q.joins) : Referenced(q.joins[k].name)

\* two relations are joined, one referenced and one not, and the emitted SQL
\* holds the JOIN of the referenced one only
C2_Witness ==
    /\ pl_ops # <<>>
    /\ \E i \in JoinOps : ~Referenced(pl_ops[i].name)
    /\ \E i \in JoinOps : Referenced(pl_ops[i].name)
    /\ Cardinality({pl_plan.query.joins[k].name : k \in 1..Len(pl_plan.query.joins)}) = 1

\* the relations a SELECT reads: its FROM and its JOINs
RefNames(q) == {q.from.name} \cup {q.joins[k].ref.name : k \in 1..Len(q.joins)}

\* the CTEs the emitted SQL holds: those the final query reads, directly or
\* through another CTE; a CTE reads only CTEs made before it
RECURSIVE EmittedNames(_, _)
EmittedNames(i, names) ==
    IF i = 0 THEN names
    ELSE EmittedNames(i - 1, IF pl_plan.ctes[i].name \in names
                             THEN names \cup RefNames(pl_plan.ctes[i].query)
                             ELSE names)

EmittedCtes ==
    {i \in 1..Len(pl_plan.ctes) :
        pl_plan.ctes[i].name \in EmittedNames(Len(pl_plan.ctes), RefNames(pl_plan.query))}

\* how many FROM and JOIN clauses of the emitted SQL select from the CTE
RefCount(cte) ==
    LET queries == <<pl_plan.query>> \o
                   [i \in 1..Len(pl_plan.ctes) |->
                      IF i \in EmittedCtes THEN pl_plan.ctes[i].query
                      ELSE SelectStarFrom(NoRef)]
    IN  Cardinality({k \in 1..Len(queries) : queries[k].from.name = cte})
        + Cardinality({p \in (1..Len(queries)) \X (1..MaxJoins) :
                         /\ p[2] <= Len(queries[p[1]].joins)
                         /\ queries[p[1]].joins[p[2]].ref.name = cte})

\* how often the source is compiled for the emitted SQL: as a prefix of the
\* model's own source and as a joined relation whose JOIN is emitted
Occurrences(S) ==
    (IF Len(S) <= Len(pl_ops) /\ SubSeq(pl_ops, 1, Len(S)) = S THEN 1 ELSE 0)
        + Cardinality({i \in JoinOps : pl_ops[i].rel = S /\ Referenced(pl_ops[i].name)})

CtesOf(S) == {i \in EmittedCtes : pl_plan.ctes[i].source = S}

Before(t) == Run(Front(pl_ops), Database(t))

LastOp == Last(pl_ops)

\* C4: filter(c) returns exactly the records of the model that satisfy c,
\* whatever operations precede it
C4_FilterExact ==
    Len(pl_ops) > 1 /\ LastOp.type = "filter" /\ LastOp.ns = "" =>
        \E t \in Perms(pl_table) :
            LET matching == SelectSeq(Before(t), LAMBDA r :
                                Field(r, LastOp.col) # None /\ Field(r, LastOp.col) >= LastOp.n)
            IN  /\ SeqToSet(pl_rows) = SeqToSet(matching)
                /\ Len(pl_rows) = Len(matching)

\* C5: limit(n) returns the first n records of the model, so limit(a) and
\* then limit(b) returns at most min(a, b) records
C5_LimitFirstN ==
    Len(pl_ops) > 1 /\ LastOp.type = "limit" =>
        \E t \in Perms(pl_table) :
            pl_rows = SubSeq(Before(t), 1, IF LastOp.n < Len(Before(t)) THEN LastOp.n
                                           ELSE Len(Before(t)))

\* C6: sort(k) returns the same records ordered by k: the latest sort is the
\* primary ordering, over an earlier ORDER BY or a LIMIT
C6_SortLatestPrimary ==
    Len(pl_ops) > 1 /\ LastOp.type = "sort" =>
        /\ \E t \in Perms(pl_table) :
              /\ SeqToSet(pl_rows) = SeqToSet(Before(t))
              /\ Len(pl_rows) = Len(Before(t))
        /\ \A i, j \in 1..Len(pl_rows) :
              i < j => IF LastOp.dir = "asc"
                       THEN Field(pl_rows[i], LastOp.col) <= Field(pl_rows[j], LastOp.col)
                       ELSE Field(pl_rows[i], LastOp.col) >= Field(pl_rows[j], LastOp.col)

\* C7: with_join_one(drop_unmatched = True) removes the records with no match
\* in the joined relation, drop_unmatched = False keeps every record, whether
\* or not a later expression references the relation
C7_DropUnmatched ==
    Len(pl_ops) > 1 /\ LastOp.type = "joinOne" =>
        \E t \in Perms(pl_table) :
            LET relation == Run(LastOp.rel, Database(t))
                matched(r) == \E k \in 1..Len(relation) :
                                 /\ Field(r, LastOp.col) # None
                                 /\ Field(relation[k], LastOp.pk) = Field(r, LastOp.col)
            IN  SeqToSet(pl_rows) =
                    IF LastOp.drop THEN {r \in SeqToSet(Before(t)) : matched(r)}
                    ELSE SeqToSet(Before(t))

\* ---- week truncation: the granularity compilers and the constant preprocessor ----
\* a datetime is a day number, day 0 being a Monday, and a time of day
\* (0 is midnight); a DATE column holds midnights only
WeekDayNumbers == 7..20

DateTimes ==
    {[day |-> d, tod |-> t, type |-> ty] :
        d \in WeekDayNumbers, t \in {0, 1}, ty \in {"DATE", "TIMESTAMP"}}
        \ {[day |-> d, tod |-> 1, type |-> "DATE"] : d \in WeekDayNumbers}

\* _dialect_compiler; BigQuery's WEEK(<offset>) date part is not evaluated here
WeekDialects ==
    {"athena", "clickhouse", "databricks", "duckdb", "mysql", "postgres", "redshift",
     "snowflake"}

\* DAY_OF_WEEK_MAPPING
WeekOffsets == 0..6

SqlCol == [f |-> "column", n |-> 0, a |-> <<>>]
SqlCall(f, n, a) == [f |-> f, n |-> n, a |-> <<a>>]

offset_for_sunday_1(monday_zero_offset) == ((monday_zero_offset + 1) % 7) + 1

\* GranularityCompiler.compile_default(base, "week")
compile_default_week(base) == SqlCall("date_trunc_week", 0, base)

\* Athena_GC, DuckDB_GC, Postgres_GC: date_trunc('week', base - offset days) + offset days
compile_week_offset_interval(base, offset) ==
    SqlCall("add_days", offset, SqlCall("date_trunc_week", 0, SqlCall("sub_days", offset, base)))

\* MySql_GC, Databricks_GC:
\* DATE(DATE_SUB(col, INTERVAL (DAYOFWEEK(col) - offset + 7) % 7 DAY))
compile_week_offset_dayofweek(base, offset) ==
    SqlCall("date_sub_dayofweek", offset_for_sunday_1(offset), base)

\* Clickhouse_GC.compile_week_offset
compile_week_offset_toMonday(base, offset) ==
    SqlCall("addDays", offset, SqlCall("toMonday", 0, base))

compile_week_offset_clickhouse(base, offset) ==
    IF offset = 6 THEN SqlCall("toStartOfWeek", 0, base)
    ELSE compile_week_offset_toMonday(base, offset)

\* Snowflake_GC.compile_week_offset
compile_week_offset_snowflake(base, type, offset) ==
    IF type = "DATE"
    THEN SqlCall("add_days", offset, SqlCall("date_trunc_week", 0, SqlCall("sub_days", offset, base)))
    ELSE SqlCall("dateadd_day", offset,
                 SqlCall("date_trunc_week", 0, SqlCall("dateadd_day", 0 - offset, base)))

\* GranularityCompiler.compile for granularity "week"
compile_week(dialect, base, type, first_day_of_week_offset) ==
    CASE dialect \in {"mysql", "databricks"} ->
            compile_week_offset_dayofweek(base, first_day_of_week_offset)
      [] first_day_of_week_offset = 0 ->
            IF dialect = "clickhouse" THEN SqlCall("toMonday", 0, base)
            ELSE compile_default_week(base)
      [] dialect \in {"athena", "duckdb", "postgres", "redshift"} ->
            compile_week_offset_interval(base, first_day_of_week_offset)
      [] dialect = "clickhouse" ->
            compile_week_offset_clickhouse(base, first_day_of_week_offset)
      [] dialect = "snowflake" ->
            compile_week_offset_snowflake(base, type, first_day_of_week_offset)

\* the Monday on or before the day, at midnight
MondayOf(x) == [x EXCEPT !.day = @ - (@ % 7), !.tod = 0]

\* the database's value of the expression for the column value x
RECURSIVE EvalWeekSql(_, _)
EvalWeekSql(e, x) ==
    IF e.f = "column" THEN x
    ELSE With(EvalWeekSql(e.a[1], x), LAMBDA v :
        CASE e.f \in {"date_trunc_week", "toMonday"} -> MondayOf(v)
          [] e.f \in {"add_days", "addDays", "dateadd_day"} -> [v EXCEPT !.day = @ + e.n]
          [] e.f = "sub_days" -> [v EXCEPT !.day = @ - e.n]
          \* mode 0: the week starts on Sunday
          [] e.f = "toStartOfWeek" -> [v EXCEPT !.day = @ - ((@ + 1) % 7), !.tod = 0]
          \* DAYOFWEEK is 1 for Sunday ... 7 for Saturday
          [] e.f = "date_sub_dayofweek" ->
                [v EXCEPT !.day = @ - (((((@ + 1) % 7) + 1) - e.n + 7) % 7), !.tod = 0])

\* _try_truncate_constant_in_python: truncate(x - offset, "week") + offset
try_truncate_constant_in_python(x, week_offset) ==
    [MondayOf([x EXCEPT !.day = @ - week_offset]) EXCEPT !.day = @ + week_offset]

CompileGranularity ==
    /\ wk_pc = "compile"
    /\ wk_sql' = compile_week(wk_dialect, SqlCol, wk_x.type, wk_offset)
    /\ wk_pc' = "execute"
    /\ UNCHANGED <<wk_x, wk_dialect, wk_offset, wk_value, wk_py, notWeekVars>>

ExecuteGranularity ==
    /\ wk_pc = "execute"
    /\ wk_value' = EvalWeekSql(wk_sql, wk_x)
    /\ wk_pc' = "preprocess"
    /\ UNCHANGED <<wk_x, wk_dialect, wk_offset, wk_sql, wk_py, notWeekVars>>

PreprocessGranularity ==
    /\ wk_pc = "preprocess"
    /\ wk_py' = try_truncate_constant_in_python(wk_x, wk_offset)
    /\ wk_pc' = "done"
    /\ UNCHANGED <<wk_x, wk_dialect, wk_offset, wk_sql, wk_value, notWeekVars>>

InitWeek ==
    /\ wk_x \in DateTimes
    /\ wk_dialect \in WeekDialects
    /\ wk_offset \in WeekOffsets
    /\ wk_sql = <<>>
    /\ wk_value = <<>>
    /\ wk_py = <<>>
    /\ wk_pc = "compile"
    /\ BuilderIdle
    /\ InIdle
    /\ FunnelIdle
    /\ PlannerIdle
    /\ LiftIdle
    /\ WireIdle
    /\ ExecIdle
    /\ NamingIdle
    /\ StepHashIdle
    /\ PickIdle
    /\ NamesIdle
    /\ ResolveIdle
    /\ FinalizeIdle
    /\ IdMapIdle
    /\ KeyPathIdle

NextWeek == CompileGranularity \/ ExecuteGranularity \/ PreprocessGranularity

SpecWeek == InitWeek /\ [][NextWeek]_vars

\* the latest midnight of the configured first day of week not later than x
WeekStart(x, d) == [x EXCEPT !.day = @ - ((@ - d) % 7), !.tod = 0]

\* C11: on every dialect and for every first day of week the compiled week
\* truncation evaluates to midnight of the latest first day of week that is
\* not later than x, the value the in-process truncation of a constant gives
C11_WeekTruncation ==
    wk_pc = "done" =>
        /\ wk_value.day = WeekStart(wk_x, wk_offset).day
        /\ wk_value.tod = 0
        /\ wk_value.day = wk_py.day
        /\ wk_value.tod = wk_py.tod

\* ---------------------------------------------------------------------------
\* Constant lifting of datetime arithmetic
\* (run/compile/column_expression/compile_column_expression.py,
\*  run/compile/column_expression/compilers/binary_op.py,
\*  run/compile/utils/datetime.py).
\*
\* An expression object is a record carrying its identity `id`, the value of
\* Python's id(): the address of the object, unique among the objects alive at
\* the same time only.  QueryContext.preprocessed keeps the ids of the results
\* of preprocessing for the whole compilation, also after the object that had
\* the id is gone; the allocator is free to hand the address out again, so the
\* address of a new object is a choice among the addresses not in use.
\* ---------------------------------------------------------------------------
MaxAddr == 5

MaxCompiles == 2

Addresses == 1..MaxAddr

LiftDatetimes == {10}

LiftIntervals == {1, 2}

PyValueColumnExpression(id, kind, value) ==
    [id |-> id, type |-> "pyValue", kind |-> kind, value |-> value]

BinaryOpColumnExpression(id, left, right, op) ==
    [id |-> id, type |-> "binaryOp", op |-> op, left |-> left, right |-> right]

\* The constant, or None (0) when the expression is no datetime/date constant.
try_get_constant_ts_value(expr) ==
    IF expr.type = "pyValue" /\ expr.kind = "datetime" THEN expr.value ELSE None

try_get_datetime_delta_value(expr) ==
    IF expr.type = "pyValue" /\ expr.kind = "interval" THEN expr.value ELSE None

\* _try_lift_binary_op: the lifted constant, a new object at address `at`, or
\* <<>> when the expression is not lifted.
try_lift_binary_op(expr, at) ==
    LET left_ts == try_get_constant_ts_value(expr.left)
        left_delta == try_get_datetime_delta_value(expr.left)
        right_ts == try_get_constant_ts_value(expr.right)
        right_delta == try_get_datetime_delta_value(expr.right)
    IN  IF expr.op \notin {"+", "-"} THEN <<>>
        ELSE IF left_ts # None /\ right_delta # None
             THEN PyValueColumnExpression(at, "datetime",
                      IF expr.op = "+" THEN left_ts + right_delta
                                       ELSE left_ts - right_delta)
        ELSE IF expr.op = "+" /\ left_delta # None /\ right_ts # None
             THEN PyValueColumnExpression(at, "datetime", right_ts + left_delta)
        ELSE <<>>

RECURSIVE preprocess_column_expression(_, _, _, _)

\* preprocess_binary_op_column_expression: works on a copy (a new object at
\* address tcopy) whose operands are preprocessed first.
preprocess_binary_op_column_expression(expr, preprocessed, tcopy, tlift) ==
    With(preprocess_column_expression(expr.left, preprocessed, tcopy, tlift),
      LAMBDA l :
    With(preprocess_column_expression(expr.right, l.preprocessed, tcopy, tlift),
      LAMBDA r :
    With(BinaryOpColumnExpression(tcopy, l.expr, r.expr, expr.op),
      LAMBDA copy :
    With(try_lift_binary_op(copy, tlift),
      LAMBDA lifted :
        [expr |-> IF lifted # <<>> THEN lifted ELSE copy,
         preprocessed |-> r.preprocessed]))))

preprocess_column_expression(expr, preprocessed, tcopy, tlift) ==
    IF expr.id \in preprocessed
    THEN [expr |-> expr, preprocessed |-> preprocessed]
    ELSE With(IF expr.type = "binaryOp"
              THEN preprocess_binary_op_column_expression(
                       expr, preprocessed, tcopy, tlift)
              ELSE [expr |-> expr, preprocessed |-> preprocessed],
           LAMBDA p :
             [expr |-> p.expr,
              preprocessed |-> p.preprocessed \cup {p.expr.id}])

compile_py_value_column_expression(expr) ==
    [sql |-> "literal", kind |-> expr.kind, value |-> expr.value]

RECURSIVE compile_column_expression(_, _, _, _)

compile_binary_op_column_expression(expr, preprocessed, tcopy, tlift) ==
    With(compile_column_expression(expr.left, preprocessed, tcopy, tlift),
      LAMBDA left :
    With(compile_column_expression(expr.right, left.preprocessed, tcopy, tlift),
      LAMBDA right :
        [sql |-> [sql |-> "operator", op |-> expr.op,
                  left |-> left.sql, right |-> right.sql],
         preprocessed |-> right.preprocessed]))

compile_column_expression(expr, preprocessed, tcopy, tlift) ==
    With(preprocess_column_expression(expr, preprocessed, tcopy, tlift),
      LAMBDA p :
        IF p.expr.type = "binaryOp"
        THEN compile_binary_op_column_expression(
                 p.expr, p.preprocessed, tcopy, tlift)
        ELSE [sql |-> compile_py_value_column_expression(p.expr),
              preprocessed |-> p.preprocessed])

LiftOperands ==
    {<<"datetime", d, "interval", i>> : d \in LiftDatetimes, i \in LiftIntervals}
    \cup
    {<<"interval", i, "datetime", d>> : d \in LiftDatetimes, i \in LiftIntervals}

\* The caller builds `left op right` (three new objects) and the compilation
\* compiles it; the copy and the lifted constant made on the way are new
\* objects as well, and are garbage as soon as the SQL is produced.
CompileExpression ==
    /\ lf_n < MaxCompiles
    /\ \E o \in LiftOperands, op \in {"+", "-"} :
       \E aE \in Addresses \ lf_live :
       \E aL \in Addresses \ (lf_live \cup {aE}) :
       \E aR \in Addresses \ (lf_live \cup {aE, aL}) :
       \E tcopy \in Addresses \ (lf_live \cup {aE, aL, aR}) :
       \E tlift \in Addresses \ (lf_live \cup {aE, aL, aR, tcopy}) :
         LET expr == BinaryOpColumnExpression(aE,
                         PyValueColumnExpression(aL, o[1], o[2]),
                         PyValueColumnExpression(aR, o[3], o[4]), op)
             result == compile_column_expression(
                           expr, lf_preprocessed, tcopy, tlift)
         IN  /\ lf_expr' = expr
             /\ lf_sql' = result.sql
             /\ lf_preprocessed' = result.preprocessed
             /\ lf_live' = lf_live \cup {aE, aL, aR}
             /\ lf_n' = lf_n + 1
    /\ UNCHANGED notLiftVars

\* The caller lets go of the expressions it built: their addresses are free.
ReleaseExpression ==
    /\ lf_live # {}
    /\ lf_live' = {}
    /\ UNCHANGED <<lf_preprocessed, lf_expr, lf_sql, lf_n>>
    /\ UNCHANGED notLiftVars

InitLift ==
    /\ lf_live = {}
    /\ lf_preprocessed = {}
    /\ lf_expr = <<>>
    /\ lf_sql = <<>>
    /\ lf_n = 0
    /\ BuilderIdle
    /\ InIdle
    /\ FunnelIdle
    /\ PlannerIdle
    /\ WeekIdle
    /\ WireIdle
    /\ ExecIdle
    /\ NamingIdle
    /\ StepHashIdle
    /\ PickIdle
    /\ NamesIdle
    /\ ResolveIdle
    /\ FinalizeIdle
    /\ IdMapIdle
    /\ KeyPathIdle

NextLift ==
    \/ CompileExpression
    \/ ReleaseExpression

SpecLift == InitLift /\ [][NextLift]_vars

IsDatetimePlusMinusInterval(expr) ==
    /\ expr # <<>>
    /\ expr.type = "binaryOp"
    /\ expr.left.kind = "datetime"
    /\ expr.right.kind = "interval"

InProcessValue(expr) ==
    IF expr.op = "+" THEN expr.left.value + expr.right.value
                     ELSE expr.left.value - expr.right.value

\* C12: whenever (d + i) or (d - i) with a constant datetime d and an interval
\* i has been compiled, the SQL emitted is one datetime literal whose value is
\* the in-process value of the arithmetic, and no + or - operator is emitted,
\* however many expressions the compilation has compiled before.
C12_ConstantLifted ==
    IsDatetimePlusMinusInterval(lf_expr) =>
        lf_sql = [sql |-> "literal", kind |-> "datetime",
                  value |-> InProcessValue(lf_expr)]

\* ---------------------------------------------------------------------------
\* The wire format (utils/serializable.py, model/column_expression/*.py).
\*
\* A node is a record of the fields its constructor sets; None for an
\* identifier is the empty string.  A timedelta is its length in microseconds,
\* which is what datetime.timedelta stores.  The payload is the dict the
\* to_wire_format method of the node's class builds, with the version key the
\* wrapper installed by Serializable.__init_subclass__ adds.  The denormalized
\* identifier of the payload is never read back and is left out.
\* ---------------------------------------------------------------------------
HASHQUERY_WIRE_VERSION == 6

MicrosPerSecond == 1000000

PyInt(v) == [py |-> "int", v |-> v]

PyTimedelta(us) == [py |-> "timedelta", microseconds |-> us]

PyTimeinterval(unit, num) == [py |-> "timeinterval", unit |-> unit, num |-> num]

\* int(x / 10^6): Python's int() truncates toward zero.
total_seconds_int(us) ==
    IF us >= 0 THEN us \div MicrosPerSecond ELSE -((-us) \div MicrosPerSecond)

primitive_to_wire_format(value) ==
    IF value.py = "timedelta"
    THEN [typeKey |-> "py.timedelta",
          seconds |-> total_seconds_int(value.microseconds)]
    ELSE IF value.py = "timeinterval"
    THEN [typeKey |-> "py.timeinterval", unit |-> value.unit, num |-> value.num]
    ELSE value

primitive_from_wire_format(wire) ==
    IF "typeKey" \notin DOMAIN wire THEN wire
    ELSE IF wire.typeKey = "py.timedelta"
    THEN PyTimedelta(wire.seconds * MicrosPerSecond)
    ELSE PyTimeinterval(wire.unit, wire.num)

PyValueNode(value, manually_set_identifier) ==
    [subType |-> "pyValue", value |-> value,
     manually_set_identifier |-> manually_set_identifier]

IsColumnExpression(arg) == "subType" \in DOMAIN arg

\* SqlFunctionColumnExpression._base_column_expression: the first argument
\* that is a column expression.
base_column_expression(args) ==
    LET idx == {i \in DOMAIN args : IsColumnExpression(args[i])}
    IN  args[CHOOSE i \in idx : \A j \in idx : i <= j]

\* SqlFunctionColumnExpression.__init__
SqlFunctionColumnExpression(function_name, args, inherit_identifier) ==
    [subType |-> "sqlFunction", function_name |-> function_name, args |-> args,
     inherit_identifier |-> inherit_identifier,
     manually_set_identifier |->
         IF inherit_identifier
         THEN base_column_expression(args).manually_set_identifier
         ELSE ""]

from_wire_format_shared(node, wire) ==
    [node EXCEPT !.manually_set_identifier = wire.manuallySetIdentifier]

RECURSIVE to_wire_format(_)

to_wire_format(node) ==
    IF node.subType = "pyValue"
    THEN [type |-> "columnExpression", subType |-> "pyValue",
          manuallySetIdentifier |-> node.manually_set_identifier,
          value |-> primitive_to_wire_format(node.value),
          _version |-> HASHQUERY_WIRE_VERSION]
    ELSE [type |-> "columnExpression", subType |-> "sqlFunction",
          manuallySetIdentifier |-> node.manually_set_identifier,
          functionName |-> node.function_name,
          args |-> [i \in DOMAIN node.args |->
                       IF IsColumnExpression(node.args[i])
                       THEN to_wire_format(node.args[i])
                       ELSE node.args[i]],
          inheritIdentifier |-> node.inherit_identifier,
          _version |-> HASHQUERY_WIRE_VERSION]

RECURSIVE from_wire_format(_)

from_wire_format(wire) ==
    IF wire.subType = "pyValue"
    THEN from_wire_format_shared(
             PyValueNode(primitive_from_wire_format(wire.value), ""), wire)
    ELSE from_wire_format_shared(
             SqlFunctionColumnExpression(
                 wire.functionName,
                 [i \in DOMAIN wire.args |->
                     IF "type" \in DOMAIN wire.args[i]
                     THEN from_wire_format(wire.args[i])
                     ELSE wire.args[i]],
                 FALSE),
             wire)

\* WireFormatVersionError.__init__ and _make_error_message.  The message is
\* built by comparing found > expected; with found = None (the key is absent)
\* that comparison raises TypeError before the error object exists.
WireFormatVersionError(expected, found) ==
    IF found = None
    THEN [raised |-> "TypeError"]
    ELSE [raised |-> "WireFormatVersionError",
          expected_version |-> expected, found_version |-> found,
          guidance |-> IF found > expected THEN "upgrade" ELSE "downgrade"]

\* The from_wire_format installed by Serializable.__init_subclass__.
versioned_from_wire_format(wire) ==
    LET found_wire_version ==
            IF "_version" \in DOMAIN wire THEN wire._version ELSE None
    IN  IF found_wire_version # HASHQUERY_WIRE_VERSION
        THEN WireFormatVersionError(HASHQUERY_WIRE_VERSION, found_wire_version)
        ELSE from_wire_format(wire)

WireTimedeltas == {0, 2 * MicrosPerSecond, 1500000, -500000}

WirePrimitives ==
    {PyInt(1)} \cup {PyTimedelta(us) : us \in WireTimedeltas}
               \cup {PyTimeinterval("days", 2)}

WireNames == {"", "n"}

WirePyValues == {PyValueNode(v, n) : v \in WirePrimitives, n \in WireNames}

WireArgs ==
    {<<a>> : a \in WirePyValues} \cup
    {<<PyInt(1), a>> : a \in WirePyValues}

WireNodes ==
    WirePyValues \cup
    {SqlFunctionColumnExpression("f", args, inherit) :
        args \in WireArgs, inherit \in BOOLEAN}

\* Versions a payload made by another release of the library carries; None
\* stands for a payload without the key.
ForeignVersions ==
    {None, HASHQUERY_WIRE_VERSION - 1, HASHQUERY_WIRE_VERSION + 1}

Serialize ==
    /\ wr_pc = "built"
    /\ wr_wire' = to_wire_format(wr_node)
    /\ wr_pc' = "sent"
    /\ UNCHANGED <<wr_node, wr_back>>
    /\ UNCHANGED notWireVars

\* The payload comes from a peer running another release.
ForeignPayload ==
    /\ wr_pc = "sent"
    /\ \E v \in ForeignVersions :
         wr_wire' = IF v = None
                    THEN [k \in DOMAIN wr_wire \ {"_version"} |-> wr_wire[k]]
                    ELSE [wr_wire EXCEPT !._version = v]
    /\ wr_pc' = "foreign"
    /\ UNCHANGED <<wr_node, wr_back>>
    /\ UNCHANGED notWireVars

Deserialize ==
    /\ wr_pc \in {"sent", "foreign"}
    /\ wr_back' = versioned_from_wire_format(wr_wire)
    /\ wr_pc' = IF wr_pc = "sent" THEN "done" ELSE "refused"
    /\ UNCHANGED <<wr_node, wr_wire>>
    /\ UNCHANGED notWireVars

InitWire ==
    /\ wr_node \in WireNodes
    /\ wr_wire = <<>>
    /\ wr_back = <<>>
    /\ wr_pc = "built"
    /\ BuilderIdle
    /\ InIdle
    /\ FunnelIdle
    /\ PlannerIdle
    /\ WeekIdle
    /\ LiftIdle
    /\ ExecIdle
    /\ NamingIdle
    /\ StepHashIdle
    /\ PickIdle
    /\ NamesIdle
    /\ ResolveIdle
    /\ FinalizeIdle
    /\ IdMapIdle
    /\ KeyPathIdle

NextWire ==
    \/ Serialize
    \/ ForeignPayload
    \/ Deserialize

SpecWire == InitWire /\ [][NextWire]_vars

\* C13: deserializing what serializing a node produced gives a node equal to
\* the one serialized, timedelta payloads and the inherit-identifier flag of
\* a function included.
C13_WireRoundTrip ==
    wr_pc = "done" => wr_back = wr_node

\* C14: a payload whose version is not the library's (older, newer or absent)
\* is refused with a WireFormatVersionError that carries the expected and the
\* found version and says to upgrade or to downgrade; no object is built.
C14_VersionMismatchRefused ==
    wr_pc = "refused" =>
        /\ wr_back.raised = "WireFormatVersionError"
        /\ wr_back.expected_version = HASHQUERY_WIRE_VERSION
        /\ wr_back.found_version =
               (IF "_version" \in DOMAIN wr_wire THEN wr_wire._version ELSE None)
        /\ wr_back.guidance \in {"upgrade", "downgrade"}

\* ---------------------------------------------------------------------------
\* execute_model (run/execute/execute_model.py) and the execution error
\* handlers of the query context (run/compile/context.py).
\*
\* A handler is `returns_str`, `text`: called with the error it returns the
\* string `text` when returns_str holds and None otherwise.
\* ---------------------------------------------------------------------------
MaxHandlers == 3

ExecutionErrorHandlers ==
    [returns_str : {TRUE}, text : {"", "m1", "m2"}] \cup
    [returns_str : {FALSE}, text : {""}]

CompileFailures == {"UserCompilationError", "Exception"}

DbErrors == {"db error"}

\* QueryContext.register_exec_error_handler; a ForkedQueryContext has no
\* attribute of that name and forwards to its parent (__getattr__).
register_exec_error_handler(handlers, handler) == <<handler>> \o handlers

ExecuteModelCompileResult(query_text) ==
    [ok |-> TRUE, query_text |-> query_text, errors |-> <<>>]

CompileFailure(error_msg) ==
    [ok |-> FALSE, query_text |-> "", errors |-> <<error_msg>>]

DataFailure(error_msg) ==
    [ok |-> FALSE, arrow_file_ipc |-> "", errors |-> <<error_msg>>]

\* _compile_query with only the handler for UserCompilationError.
compile_query_user_errors_only(raised) ==
    IF raised = ""
    THEN [compile |-> ExecuteModelCompileResult("SELECT"), escaped |-> FALSE]
    ELSE IF raised = "UserCompilationError"
    THEN [compile |-> CompileFailure(raised), escaped |-> FALSE]
    ELSE [compile |-> <<>>, escaped |-> TRUE]

\* _compile_query: `raised` is what the body of the try block raised.
compile_query(raised) ==
    IF raised = ""
    THEN [compile |-> ExecuteModelCompileResult("SELECT"), escaped |-> FALSE]
    ELSE IF raised = "UserCompilationError"
    THEN [compile |-> CompileFailure(raised), escaped |-> FALSE]
    ELSE [compile |-> CompileFailure("Internal error during SQL compilation."),
          escaped |-> FALSE]

\* Python truth value of what a handler returned.
Truthy(handler) == handler.returns_str /\ handler.text # ""

\* The except branch of _execute_query: the handlers are tried in list
\* order, `if res := handler(err)` returns on the first truthy result.
execute_query_failure(err, execution_error_handlers) ==
    LET hits == {i \in DOMAIN execution_error_handlers :
                    Truthy(execution_error_handlers[i])}
    IN  IF hits = {} THEN DataFailure(err)
        ELSE DataFailure(
                 execution_error_handlers[
                     CHOOSE i \in hits : \A j \in hits : i <= j].text)

ExecuteModel ==
    /\ ex_pc = "called"
    /\ ex_pc' = "compiling"
    /\ UNCHANGED <<ex_sql_only, ex_handlers, ex_registered, ex_raised,
                   ex_compile, ex_data, ex_sent, ex_escaped>>
    /\ UNCHANGED notExecVars

\* A source compiler registers a handler, on the context or on a fork of it.
RegisterHandler ==
    /\ ex_pc = "compiling"
    /\ Len(ex_handlers) < MaxHandlers
    /\ \E handler \in ExecutionErrorHandlers :
         /\ ex_handlers' = register_exec_error_handler(ex_handlers, handler)
         /\ ex_registered' = Append(ex_registered, handler)
    /\ UNCHANGED <<ex_pc, ex_sql_only, ex_raised, ex_compile, ex_data,
                   ex_sent, ex_escaped>>
    /\ UNCHANGED notExecVars

\* The compilation ends: normally, or with an exception.  execute_model goes
\* on to its return when sql_only is set or the compilation failed.
CompileQuery ==
    /\ ex_pc = "compiling"
    /\ \E raised \in {""} \cup CompileFailures :
         LET r == compile_query(raised)
         IN  /\ ex_raised' = raised
             /\ ex_compile' = r.compile
             /\ ex_escaped' = r.escaped
             /\ ex_pc' = IF r.escaped \/ ex_sql_only \/ ~r.compile.ok
                         THEN "returned" ELSE "executing"
    /\ UNCHANGED <<ex_sql_only, ex_handlers, ex_registered, ex_data, ex_sent>>
    /\ UNCHANGED notExecVars

\* _execute_query: the query goes to the database, which answers or fails.
ExecuteQuery ==
    /\ ex_pc = "executing"
    /\ ex_sent' = ex_sent + 1
    /\ \/ ex_data' = [ok |-> TRUE, arrow_file_ipc |-> "rows", errors |-> <<>>]
       \/ \E err \in DbErrors :
            ex_data' = execute_query_failure(err, ex_handlers)
    /\ ex_pc' = "returned"
    /\ UNCHANGED <<ex_sql_only, ex_handlers, ex_registered, ex_raised,
                   ex_compile, ex_escaped>>
    /\ UNCHANGED notExecVars

InitExec ==
    /\ ex_pc = "called"
    /\ ex_sql_only \in BOOLEAN
    /\ ex_handlers = <<>>
    /\ ex_registered = <<>>
    /\ ex_raised = ""
    /\ ex_compile = <<>>
    /\ ex_data = <<>>
    /\ ex_sent = 0
    /\ ex_escaped = FALSE
    /\ BuilderIdle
    /\ InIdle
    /\ FunnelIdle
    /\ PlannerIdle
    /\ WeekIdle
    /\ LiftIdle
    /\ WireIdle
    /\ NamingIdle
    /\ StepHashIdle
    /\ PickIdle
    /\ NamesIdle
    /\ ResolveIdle
    /\ FinalizeIdle
    /\ IdMapIdle
    /\ KeyPathIdle

NextExec ==
    \/ ExecuteModel
    \/ RegisterHandler
    \/ CompileQuery
    \/ ExecuteQuery

SpecExec == InitExec /\ [][NextExec]_vars

\* C15: when the compilation raises, whatever it raises, execute_model
\* returns a failed compile result and no data, nothing has been sent to the
\* database, and no exception leaves execute_model.
C15_CompileFailureContained ==
    (ex_pc = "returned" /\ ex_raised # "") =>
        /\ ~ex_escaped
        /\ ex_compile # <<>>
        /\ ~ex_compile.ok
        /\ ex_compile.errors # <<>>
        /\ ex_data = <<>>
        /\ ex_sent = 0

C15_Witness ==
    /\ ex_pc = "returned"
    /\ ex_raised = "Exception"
    /\ ~ex_sql_only
    /\ ex_registered # <<>>

\* The handlers that returned a string, by position of registration.
StringHandlers == {i \in DOMAIN ex_registered : ex_registered[i].returns_str}

\* C16: when the execution of the query failed, the message of the result is
\* the string returned by the handler registered last among those that return
\* a string, and the database's own message when no handler returns a string.
C16_NewestHandlerOwnsMessage ==
    (ex_pc = "returned" /\ ex_data # <<>> /\ ~ex_data.ok) =>
        IF StringHandlers = {}
        THEN ex_data.errors \in {<<e>> : e \in DbErrors}
        ELSE ex_data.errors =
                 <<ex_registered[CHOOSE i \in StringHandlers :
                                    \A j \in StringHandlers : j <= i].text>>

\* ---------------------------------------------------------------------------
\* Reserved names (utils/identifier.py, ColumnExpression.named,
\* Model.with_join_one).  A name is the sequence of its characters.
\* ---------------------------------------------------------------------------
MaxNameLen == 6

NameChars == {"_", "a", "1"}

Digits == {"1"}

UserNames == SeqsUpTo(NameChars, MaxNameLen)

\* re.fullmatch(r"__.+__\d*", name): two underscores, at least one character,
\* two underscores, then digits only.
is_double_underscore_name(name) ==
    \E k \in 1..Len(name) :
        /\ Len(name) >= k + 4
        /\ name[1] = "_" /\ name[2] = "_"
        /\ name[k + 3] = "_" /\ name[k + 4] = "_"
        /\ \A p \in (k + 5)..Len(name) : name[p] \in Digits

\* ColumnExpression.named: raises ValueError or sets the identifier.
named(identifier, name) ==
    IF name # <<>> /\ is_double_underscore_name(name)
    THEN [raised |-> TRUE, identifier |-> identifier]
    ELSE [raised |-> FALSE, identifier |-> name]

\* The table of the joined model names a relation that is given no name.
JoinedDefaultIdentifier == <<"a">>

\* Model.with_join_one, the part that names the relation: `named=` or the
\* default identifier of the joined source names the namespace added.
with_join_one_named(namespaces, name) ==
    LET relation_name == IF name # <<>> THEN name ELSE JoinedDefaultIdentifier
    IN  [raised |-> FALSE, namespaces |-> namespaces \cup {relation_name}]

Named ==
    /\ nm_call = <<>>
    /\ \E name \in UserNames :
         LET r == named(nm_identifier, name)
         IN  /\ nm_identifier' = r.identifier
             /\ nm_raised' = r.raised
             /\ nm_call' = [api |-> "named", name |-> name]
    /\ UNCHANGED nm_namespaces
    /\ UNCHANGED notNamingVars

WithJoinOne ==
    /\ nm_call = <<>>
    /\ \E name \in UserNames :
         LET r == with_join_one_named(nm_namespaces, name)
         IN  /\ nm_namespaces' = r.namespaces
             /\ nm_raised' = r.raised
             /\ nm_call' = [api |-> "with_join_one", name |-> name]
    /\ UNCHANGED nm_identifier
    /\ UNCHANGED notNamingVars

InitNaming ==
    /\ nm_identifier = <<>>
    /\ nm_namespaces = {}
    /\ nm_call = <<>>
    /\ nm_raised = FALSE
    /\ BuilderIdle
    /\ InIdle
    /\ FunnelIdle
    /\ PlannerIdle
    /\ WeekIdle
    /\ LiftIdle
    /\ WireIdle
    /\ ExecIdle
    /\ StepHashIdle
    /\ PickIdle
    /\ NamesIdle
    /\ ResolveIdle
    /\ FinalizeIdle
    /\ IdMapIdle
    /\ KeyPathIdle

NextNaming ==
    \/ Named
    \/ WithJoinOne

SpecNaming == InitNaming /\ [][NextNaming]_vars

\* The pattern the names are reserved by: __.+__
ReservedName(name) ==
    /\ Len(name) >= 5
    /\ name[1] = "_" /\ name[2] = "_"
    /\ name[Len(name) - 1] = "_" /\ name[Len(name)] = "_"

\* C17: a naming call that is given a name of the form __.+__ raises and
\* names nothing, whether it is ColumnExpression.named or the named= of
\* with_join_one.
C17_ReservedNamesRejected ==
    (nm_call # <<>> /\ ReservedName(nm_call.name)) =>
        /\ nm_raised
        /\ nm_identifier # nm_call.name
        /\ nm_call.name \notin nm_namespaces

\* The sources that have a checkpoint after the compilation.
CheckpointSources == {pl_plan.cache[i].source : i \in 1..Len(pl_plan.cache)}

CheckpointRows(source) ==
    RefRows(get_alias_checkpoint([QueryContext EXCEPT !.cache = pl_plan.cache],
                                 source),
            pl_plan.ctes, Database(pl_table))

\* C18: a reference get_alias_checkpoint returns for a source is a CTE whose
\* rows are the rows of that source, not those of a longer chain such as the
\* union the source is the base of.
C18_CheckpointIsSource ==
    \A source \in CheckpointSources :
        CheckpointRows(source) = Run(source, Database(pl_table))

\* The relations a SELECT has in scope when it reaches its i-th JOIN.
JoinedBefore(q, i) == {q.from.alias} \cup {q.joins[k].ref.alias : k \in 1..(i - 1)}

\* C19: the ON clause of every JOIN emitted refers to the main table and to
\* relations joined earlier in the same SELECT only; a relation that only the
\* condition of an emitted join refers to is joined as well.
C19_JoinConditionInScope ==
    \A q \in PlanQueries : \A i \in 1..Len(q.joins) :
        /\ q.joins[i].on.left.table \in JoinedBefore(q, i) \cup {""}
        /\ q.joins[i].on.right.table \in JoinedBefore(q, i + 1)

\* C20: the k-th character of the journey hash of a group and the events row
\* of the group with __event_index__ = k are the same (event, step) row, also
\* when timestamps tie; so the event joined back for step i is one that
\* passes the condition of step i.
C20_HashPositionIsEventIndex ==
    /\ \A r \in ms_union :
           journey_hash(ms_union, r.group)[r.event_index] = r.hash_id
    /\ \A row \in ms_rows : \A i \in 1..Len(ms_steps) :
           row.step[i] \in {None, i - 1}

\* ---------------------------------------------------------------------------
\* Step hash ids in the journey hash (match_steps.py, _step_hash_id and
\* _build_journey_hash).  A funnel of sh_j + 1 steps over one entity: every
\* step other than sh_i and sh_j is matched by an event of its own at
\* timestamp step + 1, and one event at timestamp sh_i + 1 matches both step
\* sh_i and step sh_j.
\* ---------------------------------------------------------------------------
StepIndexes == 0..(Len(CHARS) - 1)

SharedEventRows(i, j) ==
    { [group |-> 1, ts |-> IF k = j THEN i + 1 ELSE k + 1, step |-> k,
       hash_id |-> step_hash_id(k)] : k \in 0..j }

UnionStepEvents ==
    /\ sh_pc = "events"
    /\ sh_rows' = SharedEventRows(sh_i, sh_j)
    /\ sh_pc' = "journeys"
    /\ UNCHANGED <<sh_i, sh_j, sh_hash, sh_indices>>
    /\ UNCHANGED notStepHashVars

AggregateJourneyHash ==
    /\ sh_pc = "journeys"
    /\ sh_hash' = journey_hash(sh_rows, 1)
    /\ sh_pc' = "steps"
    /\ UNCHANGED <<sh_i, sh_j, sh_rows, sh_indices>>
    /\ UNCHANGED notStepHashVars

\* one _form_journeys_query_step CTE: the event index of the next step
FormJourneyStep ==
    /\ sh_pc = "steps"
    /\ Len(sh_indices) <= sh_j
    /\ sh_indices' = Append(sh_indices,
                            get_event_index_col(sh_hash, Len(sh_indices), sh_indices))
    /\ sh_pc' = IF Len(sh_indices) = sh_j THEN "done" ELSE "steps"
    /\ UNCHANGED <<sh_i, sh_j, sh_rows, sh_hash>>
    /\ UNCHANGED notStepHashVars

InitStepHash ==
    /\ sh_i \in StepIndexes
    /\ sh_j \in StepIndexes
    /\ sh_i < sh_j
    /\ sh_rows = {}
    /\ sh_hash = <<>>
    /\ sh_indices = <<>>
    /\ sh_pc = "events"
    /\ BuilderIdle
    /\ InIdle
    /\ FunnelIdle
    /\ PlannerIdle
    /\ WeekIdle
    /\ LiftIdle
    /\ WireIdle
    /\ ExecIdle
    /\ NamingIdle
    /\ PickIdle
    /\ NamesIdle
    /\ ResolveIdle
    /\ FinalizeIdle
    /\ IdMapIdle
    /\ KeyPathIdle

NextStepHash ==
    \/ UnionStepEvents
    \/ AggregateJourneyHash
    \/ FormJourneyStep

SpecStepHash == InitStepHash /\ [][NextStepHash]_vars

\* the positions of the journey hash that stand for the event matching both
\* steps
SharedEventPositions ==
    {p \in 1..Len(sh_hash) : sh_hash[p] \in {step_hash_id(sh_i), step_hash_id(sh_j)}}

\* C21: for steps i < j the id of step i sorts before the id of step j in the
\* order the journey hash is built by, the event matching both contributes
\* the id of j before the id of i, and the journey never matches both steps
\* with that one event.
C21_StepHashIdsAscending ==
    sh_pc = "done" =>
        /\ AsciiCode(step_hash_id(sh_i)) < AsciiCode(step_hash_id(sh_j))
        /\ \E p \in 1..(Len(sh_hash) - 1) :
               sh_hash[p] = step_hash_id(sh_j) /\ sh_hash[p + 1] = step_hash_id(sh_i)
        /\ ~(/\ sh_indices[sh_i + 1] \in SharedEventPositions
             /\ sh_indices[sh_j + 1] \in SharedEventPositions)

\* the journey of the entity of an output row
JourneyOf(r) ==
    IF \E j \in ms_journeys : j.group = r.group
    THEN (CHOOSE j \in ms_journeys : j.group = r.group).step_event_index
    ELSE [i \in 1..Len(ms_steps) |-> None]

\* C22: in the output of match_steps the matched steps of every entity are a
\* prefix of the step list, the events matched for consecutive steps have
\* strictly increasing event indices and non-decreasing timestamps, and the
\* counts of funnel never increase from one step to the next.
C22_MatchedStepsArePrefix ==
    /\ ms_pc \in {"matched", "done"} =>
         \A r \in ms_rows : \A i \in 1..(Len(ms_steps) - 1) :
             r.timestamp[i + 1] # None =>
                 /\ r.timestamp[i] # None
                 /\ JourneyOf(r)[i] # None
                 /\ JourneyOf(r)[i] < JourneyOf(r)[i + 1]
                 /\ r.timestamp[i] <= r.timestamp[i + 1]
    /\ ms_pc = "done" =>
         \A k \in 1..(Len(ms_funnel) - 1) : ms_funnel[k][2] >= ms_funnel[k + 1][2]

\* a three-step funnel with a time limit where the entity matched the first
\* two steps with different events and not the third
C22_Witness ==
    /\ ms_pc = "done"
    /\ Len(ms_steps) = 3
    /\ ms_time_limit # 0
    /\ \E r \in ms_rows :
          /\ r.timestamp[1] # None
          /\ r.timestamp[2] # None
          /\ r.timestamp[3] = None
          /\ JourneyOf(r)[3] # None

PickNames == {"id", "x", "fk"}

\* a column of the base, under its own name or renamed to "k"
PickColumns ==
    {ColumnExpr("", c) : c \in PickNames} \cup
    {NamedColumnExpr("", c, "k") : c \in PickNames}

PickLists(columns) ==
    {<<c>> : c \in columns} \cup {<<c, d>> : c \in columns, d \in columns}

CompilePickBase ==
    /\ pk_pc = "base"
    /\ pk_base' = compile_source(
                      TableNameSource("t") \o <<PickSource(pk_first)>>, QueryContext, "main")
    /\ pk_pc' = "pick"
    /\ UNCHANGED <<pk_first, pk_second, pk_out>>
    /\ UNCHANGED notPickVars

CompilePick ==
    /\ pk_pc = "pick"
    /\ pk_out' = compile_source(
                     TableNameSource("t") \o <<PickSource(pk_first), PickSource(pk_second)>>,
                     QueryContext, "main")
    /\ pk_pc' = "done"
    /\ UNCHANGED <<pk_first, pk_second, pk_base>>
    /\ UNCHANGED notPickVars

InitPick ==
    /\ pk_first \in PickLists({ColumnExpr("", c) : c \in PickNames})
    /\ pk_second \in PickLists(PickColumns)
    /\ \A i, j \in 1..Len(pk_first) : i # j => pk_first[i] # pk_first[j]
    /\ \A i \in 1..Len(pk_second) :
           \E j \in 1..Len(pk_first) : pk_second[i].name = pk_first[j].name
    /\ \A i, j \in 1..Len(pk_second) :
           i # j => Identifier(pk_second[i]) # Identifier(pk_second[j])
    /\ pk_base = <<>>
    /\ pk_out = <<>>
    /\ pk_pc = "base"
    /\ BuilderIdle
    /\ InIdle
    /\ FunnelIdle
    /\ PlannerIdle
    /\ WeekIdle
    /\ LiftIdle
    /\ WireIdle
    /\ ExecIdle
    /\ NamingIdle
    /\ StepHashIdle
    /\ NamesIdle
    /\ ResolveIdle
    /\ FinalizeIdle
    /\ IdMapIdle
    /\ KeyPathIdle

NextPick == CompilePickBase \/ CompilePick

SpecPick == InitPick /\ [][NextPick]_vars

\* the columns a query selects, in order: the column read and its label
SelectedColumns(query) ==
    [i \in 1..Len(query.columns) |->
        <<query.columns[i].column.name, query.columns[i].label>>]

\* the columns the Pick asks for, in order
PickedColumns(cols) == [i \in 1..Len(cols) |-> <<cols[i].name, Identifier(cols[i])>>]

\* the Pick was skipped: compile_pick_source returned the base layer as is
PickSkipped == pk_out.layer.query = pk_base.layer.query /\ pk_out.ctx = pk_base.ctx

\* C24: a Pick is skipped exactly when it has no effect on the base, that is
\* when it selects the base's columns under the same names in the same
\* order; a Pick that renames, reorders or drops a column is never skipped.
C24_PickSkippedIffNoEffect ==
    pk_pc = "done" =>
        (PickSkipped <=>
            PickedColumns(pk_second) = SelectedColumns(pk_base.layer.query))

\* ---------------------------------------------------------------------------
\* The name allocator of the QueryContext (context.py), with names and
\* reserved SQL texts as sequences of characters.
\* ---------------------------------------------------------------------------
MaxNameCalls == 3      \* allocator calls in one compilation

MainName == <<"m", "a", "i", "n">>
LayerSuffix == <<"_", "l", "a", "y", "e", "r">>
DecimalDigits == <<"0", "1", "2", "3", "4", "5", "6", "7", "8", "9">>

\* str(index)
RECURSIVE IndexText(_)
IndexText(n) ==
    IF n < 10 THEN <<DecimalDigits[n + 1]>>
    ELSE IndexText(n \div 10) \o <<DecimalDigits[(n % 10) + 1]>>

\* Python's `name in text` for strings
IsSubstring(name, text) ==
    \E i \in 0..(Len(text) - Len(name)) : SubSeq(text, i + 1, i + Len(name)) = name

\* QueryContext._get_free_name: the first free proposal
RECURSIVE free_name(_, _, _, _, _)
free_name(used, texts, base_name, index, always_include_index) ==
    LET proposed_name == IF index <= 1 /\ ~always_include_index THEN base_name
                         ELSE base_name \o <<"_">> \o IndexText(index)
        name_is_already_used ==
            \/ proposed_name \in used
            \/ \E k \in 1..Len(texts) : IsSubstring(proposed_name, texts[k])
    IN  IF ~name_is_already_used THEN proposed_name
        ELSE free_name(used, texts, base_name, index + 1, always_include_index)

AliasBaseNames == {<<"a">>, <<"b">>}
ForkBaseNames == {<<"j">>}
ReservableNames == {<<"a">>, <<"a", "_", "2">>, MainName \o LayerSuffix \o <<"_", "1">>}
ReservableTexts ==
    {<<"f", " ", "a">>, <<"f", " ", "a", "_", "2">>,
     <<"f", " ">> \o MainName \o LayerSuffix \o <<"_", "1">>}

\* a name was handed out: it is in _used_ref_names from now on
HandOut(name) ==
    /\ Len(nc_handed) < MaxNameCalls
    /\ nc_used' = nc_used \cup {name}
    /\ nc_handed' = Append(nc_handed, name)

NextAliasName ==
    /\ \E name \in AliasBaseNames :
         HandOut(free_name(nc_used, nc_texts, name, 1, FALSE))
    /\ UNCHANGED <<nc_texts, nc_reserved, nc_forks>>
    /\ UNCHANGED notNamesVars

\* next_cte_name of the root context or of a forked one, which forwards
\* _get_free_name to its parent
NextCteName ==
    /\ \E self_name \in {MainName} \cup nc_forks :
         HandOut(free_name(nc_used, nc_texts, self_name \o LayerSuffix, 1, TRUE))
    /\ UNCHANGED <<nc_texts, nc_reserved, nc_forks>>
    /\ UNCHANGED notNamesVars

AddReservedName ==
    /\ Cardinality(nc_reserved) + Len(nc_texts) < MaxNameCalls
    /\ \/ \E name \in ReservableNames \ nc_reserved :
            /\ nc_used' = nc_used \cup {name}
            /\ nc_reserved' = nc_reserved \cup {name}
            /\ UNCHANGED nc_texts
       \/ \E text \in ReservableTexts \ SeqToSet(nc_texts) :
            /\ nc_texts' = Append(nc_texts, text)
            /\ UNCHANGED <<nc_used, nc_reserved>>
    /\ UNCHANGED <<nc_handed, nc_forks>>
    /\ UNCHANGED notNamesVars

ForkCteNames ==
    /\ \E name \in ForkBaseNames :
         LET fork_name == free_name(nc_used, nc_texts, name, 1, FALSE)
         IN  /\ HandOut(fork_name)
             /\ nc_forks' = nc_forks \cup {fork_name}
    /\ UNCHANGED <<nc_texts, nc_reserved>>
    /\ UNCHANGED notNamesVars

InitNames ==
    /\ nc_used = {}
    /\ nc_texts = <<>>
    /\ nc_reserved = {}
    /\ nc_handed = <<>>
    /\ nc_forks = {}
    /\ BuilderIdle
    /\ InIdle
    /\ FunnelIdle
    /\ PlannerIdle
    /\ WeekIdle
    /\ LiftIdle
    /\ WireIdle
    /\ ExecIdle
    /\ NamingIdle
    /\ StepHashIdle
    /\ PickIdle
    /\ ResolveIdle
    /\ FinalizeIdle
    /\ IdMapIdle
    /\ KeyPathIdle

NextNames == NextAliasName \/ NextCteName \/ AddReservedName \/ ForkCteNames

SpecNames == InitNames /\ [][NextNames]_vars

\* C25: at every point the names handed out so far are pairwise distinct,
\* none of them equals a reserved name and none occurs as a substring of a
\* text reserved with match_any_substring.
C25_HandedNamesFree ==
    /\ \A i, j \in 1..Len(nc_handed) : i # j => nc_handed[i] # nc_handed[j]
    /\ \A i \in 1..Len(nc_handed) :
          /\ nc_handed[i] \notin nc_reserved
          /\ \A k \in 1..Len(nc_texts) : ~IsSubstring(nc_handed[i], nc_texts[k])

\* ---------------------------------------------------------------------------
\* resolve_hashboard_aliases_in_custom_sql (run/compile/utils/sql.py) as a
\* machine with an explicit call stack.  Texts are sequences of characters;
\* the characters of [a-zA-Z0-9_] are the name characters.
\* ---------------------------------------------------------------------------
MAX_RESOLUTIONS == 10000
PythonRecursionLimit == 1000   \* sys.getrecursionlimit() of the interpreter
FramesPerAlias == 3            \* the lambda, _alias_to_sql and _resolve

IsNameChar(c) == c \notin {"{", "}", " ", "+"}

\* the first position from i on whose character is not a space, or
\* Len(s) + 1
SkipSpaces(s, i) ==
    CHOOSE k \in i..(Len(s) + 1) :
        /\ k = Len(s) + 1 \/ s[k] # " "
        /\ \A m \in i..(k - 1) : s[m] = " "

SkipName(s, i) ==
    CHOOSE k \in i..(Len(s) + 1) :
        /\ k = Len(s) + 1 \/ ~IsNameChar(s[k])
        /\ \A m \in i..(k - 1) : IsNameChar(s[m])

\* CUSTOM_SQL_ALIAS_PATTERN = {{ *([a-zA-Z0-9_]+) *}} matched at position i:
\* the position of the last character of the match and the alias, or last = 0
MatchAt(s, i) ==
    IF i + 1 > Len(s) \/ s[i] # "{" \/ s[i + 1] # "{"
    THEN [last |-> 0, alias |-> <<>>]
    ELSE LET k == SkipSpaces(s, i + 2)
             m == SkipName(s, k)
             p == SkipSpaces(s, m)
         IN  IF m > k /\ p + 1 <= Len(s) /\ s[p] = "}" /\ s[p + 1] = "}"
             THEN [last |-> p + 1, alias |-> SubSeq(s, k, m - 1)]
             ELSE [last |-> 0, alias |-> <<>>]

\* pattern.search: the position of the leftmost match, or 0
Search(s) ==
    IF \E i \in 1..Len(s) : MatchAt(s, i).last # 0
    THEN CHOOSE i \in 1..Len(s) :
            /\ MatchAt(s, i).last # 0
            /\ \A j \in 1..(i - 1) : MatchAt(s, j).last = 0
    ELSE 0

\* a _resolve call: `cur`, and while pattern.sub runs the text substituted
\* so far and the rest of the text it scans
ResolveFrame(cur, alias) ==
    [cur |-> cur, at |-> "while", out |-> <<>>, rest |-> <<>>, alias |-> alias]

TopFrame == rs_stack[Len(rs_stack)]

Running == rs_result.kind = "running"

Raise(kind) ==
    /\ rs_result' = [kind |-> kind, text |-> <<>>]
    /\ rs_stack' = <<>>
    /\ UNCHANGED <<rs_sql, rs_alias_to_sql, rs_seen, rs_n>>

\* the test of `while pattern.search(cur)` succeeds: one more resolution
ResolveWhile ==
    /\ Running
    /\ TopFrame.at = "while"
    /\ Search(TopFrame.cur) # 0
    /\ IF rs_n + 1 > MAX_RESOLUTIONS
       THEN Raise("UserCompilationError: resolved more than MAX_RESOLUTIONS")
       ELSE /\ rs_n' = rs_n + 1
            /\ rs_stack' = [rs_stack EXCEPT ![Len(rs_stack)] =
                               [@ EXCEPT !.at = "sub", !.out = <<>>, !.rest = TopFrame.cur]]
            /\ UNCHANGED <<rs_sql, rs_alias_to_sql, rs_seen, rs_result>>
    /\ UNCHANGED notResolveVars

\* pattern.sub reaches the next match and calls _alias_to_sql, which calls
\* _resolve on the substituted text
AliasToSql ==
    /\ Running
    /\ TopFrame.at = "sub"
    /\ Search(TopFrame.rest) # 0
    /\ LET i == Search(TopFrame.rest)
           match == MatchAt(TopFrame.rest, i)
       IN  IF match.alias \in rs_seen
           THEN Raise("UserCompilationError: found cycle")
           ELSE IF 2 + FramesPerAlias * Len(rs_stack) > PythonRecursionLimit
           THEN Raise("RecursionError")
           ELSE /\ rs_seen' = rs_seen \cup {match.alias}
                /\ rs_stack' =
                     Append([rs_stack EXCEPT ![Len(rs_stack)] =
                               [@ EXCEPT !.out = @ \o SubSeq(TopFrame.rest, 1, i - 1),
                                         !.rest = SubSeq(TopFrame.rest, match.last + 1,
                                                         Len(TopFrame.rest))]],
                            ResolveFrame(rs_alias_to_sql[match.alias], match.alias))
                /\ UNCHANGED <<rs_sql, rs_alias_to_sql, rs_n, rs_result>>
    /\ UNCHANGED notResolveVars

\* pattern.sub found no further match: cur is the substituted text
SubReturn ==
    /\ Running
    /\ TopFrame.at = "sub"
    /\ Search(TopFrame.rest) = 0
    /\ rs_stack' = [rs_stack EXCEPT ![Len(rs_stack)] =
                       [@ EXCEPT !.at = "while", !.cur = TopFrame.out \o TopFrame.rest,
                                 !.out = <<>>, !.rest = <<>>]]
    /\ UNCHANGED <<rs_sql, rs_alias_to_sql, rs_seen, rs_n, rs_result>>
    /\ UNCHANGED notResolveVars

\* the while test fails: _resolve returns cur, to _alias_to_sql (which takes
\* the alias out of seen and hands the text to pattern.sub) or to the caller
ResolveReturn ==
    /\ Running
    /\ TopFrame.at = "while"
    /\ Search(TopFrame.cur) = 0
    /\ IF Len(rs_stack) = 1
       THEN /\ rs_result' = [kind |-> "returned", text |-> TopFrame.cur]
            /\ rs_stack' = <<>>
            /\ UNCHANGED rs_seen
       ELSE /\ rs_seen' = rs_seen \ {TopFrame.alias}
            /\ rs_stack' = [Front(rs_stack) EXCEPT ![Len(rs_stack) - 1] =
                               [@ EXCEPT !.out = @ \o TopFrame.cur]]
            /\ UNCHANGED rs_result
    /\ UNCHANGED <<rs_sql, rs_alias_to_sql, rs_n>>
    /\ UNCHANGED notResolveVars

\* the inputs: texts over the aliases a and b, ...
Reference(alias) == <<"{", "{">> \o alias \o <<"}", "}">>

SqlFragments ==
    {<<"1">>, Reference(<<"a">>), Reference(<<"b">>),
     Reference(<<"a">>) \o <<"+">> \o Reference(<<"a">>),
     Reference(<<"a">>) \o <<"+">> \o Reference(<<"b">>),
     <<"{", "{", " ", "b", " ", "}", "}", "+", "1">>}

\* ... references that only form when texts are put together, ...
SplitReferences ==
    [sql |-> Reference(<<"c">>),
     alias_to_sql |-> [alias \in {<<"a">>, <<"b">>, <<"c">>} |->
        CASE alias = <<"a">> -> <<"{", "{", " ", "c">>
          [] alias = <<"b">> -> <<" ", "}", "}">>
          [] OTHER -> Reference(<<"a">>) \o Reference(<<"b">>)]]

RegeneratedReference ==
    [sql |-> <<"{", "{", " ", "x", "}", "}", "}", "}">>,
     alias_to_sql |-> [alias \in {<<"x">>, <<"z">>} |->
        IF alias = <<"x">> THEN <<"{", "{", " ", "x", "{", "{", " ", "z">>
        ELSE <<"}", "}", "}", "}">>]]

\* ... and a chain n0 -> n1 -> ... of references, none repeated
ChainLength == PythonRecursionLimit \div FramesPerAlias + 1

ChainAlias(k) == <<"n" \o ToString(k)>>

ReferenceChain ==
    [sql |-> Reference(ChainAlias(0)),
     alias_to_sql |-> [alias \in {ChainAlias(k) : k \in 0..ChainLength} |->
        LET k == CHOOSE n \in 0..ChainLength : ChainAlias(n) = alias
        IN  IF k = ChainLength THEN <<"1">> ELSE Reference(ChainAlias(k + 1))]]

InitResolve ==
    /\ \/ /\ rs_sql \in SqlFragments
          /\ rs_alias_to_sql \in [{<<"a">>, <<"b">>} -> SqlFragments]
       \/ \E input \in {SplitReferences, RegeneratedReference, ReferenceChain} :
            /\ rs_sql = input.sql
            /\ rs_alias_to_sql = input.alias_to_sql
    /\ rs_stack = <<ResolveFrame(rs_sql, <<>>)>>
    /\ rs_seen = {}
    /\ rs_n = 0
    /\ rs_result = [kind |-> "running", text |-> <<>>]
    /\ BuilderIdle
    /\ InIdle
    /\ FunnelIdle
    /\ PlannerIdle
    /\ WeekIdle
    /\ LiftIdle
    /\ WireIdle
    /\ ExecIdle
    /\ NamingIdle
    /\ StepHashIdle
    /\ PickIdle
    /\ NamesIdle
    /\ FinalizeIdle
    /\ IdMapIdle
    /\ KeyPathIdle

NextResolve == ResolveWhile \/ AliasToSql \/ SubReturn \/ ResolveReturn

SpecResolve == InitResolve /\ [][NextResolve]_vars

\* the aliases a text refers to
References(s) == {MatchAt(s, i).alias : i \in {j \in 1..Len(s) : MatchAt(s, j).last # 0}}

\* the aliases reachable from a set of aliases through the texts
RECURSIVE ReachableAliases(_)
ReachableAliases(aliases) ==
    LET more == aliases \cup UNION {References(rs_alias_to_sql[a]) : a \in aliases}
    IN  IF more = aliases THEN aliases ELSE ReachableAliases(more)

\* some alias the custom SQL reaches refers, directly or not, to itself
CyclicReferences ==
    \E a \in ReachableAliases(References(rs_sql)) :
        a \in ReachableAliases(References(rs_alias_to_sql[a]))

\* C27: the inlining ends either with a text in which no reference is left,
\* or with a user compilation error because the references are cyclic or
\* more than 10,000 resolutions were needed; acyclic references never end
\* with the cycle error.
C27_InliningOutcome ==
    \/ rs_result.kind = "running"
    \/ rs_result.kind = "returned" /\ Search(rs_result.text) = 0
    \/ rs_result.kind = "UserCompilationError: resolved more than MAX_RESOLUTIONS"
    \/ rs_result.kind = "UserCompilationError: found cycle" /\ CyclicReferences

\* ---------------------------------------------------------------------------
\* QueryLayer.on_finalize_handlers and QueryLayer.finalized (query_layer.py).
\* A handler is [id, nested, by]: called, it appends a handler to the
\* layer's list that in turn leads to nested - 1 more.
\* ---------------------------------------------------------------------------
MaxFinalizeHandlers == 3   \* handlers a compiler appends to one layer
MaxNested == 2             \* handlers one handler leads to while it runs
MaxFinalizations == 2      \* finalized() calls on the layer

FinalizeHandler(id, nested, by) == [id |-> id, nested |-> nested, by |-> by]

\* the layer after handler(self): the lists with what the handler appended
CallHandler(l, handler) ==
    LET appended == IF handler.nested = 0 THEN <<>>
                    ELSE <<FinalizeHandler(Len(l.registered) + 1, handler.nested - 1, "handler")>>
    IN  [handlers |-> l.handlers \o appended,
         registered |-> l.registered \o appended,
         fired |-> Append(l.fired, handler)]

\* finalized() popping the newest handler instead of the oldest
RECURSIVE finalized_handlers_newest_first(_)
finalized_handlers_newest_first(l) ==
    IF l.handlers = <<>> THEN l
    ELSE With(CallHandler([l EXCEPT !.handlers = Front(@)], Last(l.handlers)),
              LAMBDA called : finalized_handlers_newest_first(called))

\* QueryLayer.finalized: while handler := on_finalize_handlers.pop(0)
RECURSIVE finalized_handlers(_)
finalized_handlers(l) ==
    IF l.handlers = <<>> THEN l
    ELSE With(CallHandler([l EXCEPT !.handlers = Tail(@)], Head(l.handlers)),
              LAMBDA called : finalized_handlers(called))

\* a source compiler does layer.on_finalize_handlers.append(handler)
AppendOnFinalize ==
    /\ Cardinality({i \in 1..Len(fz_registered) : fz_registered[i].by = "compiler"})
         < MaxFinalizeHandlers
    /\ \E nested \in 0..MaxNested :
         LET handler == FinalizeHandler(Len(fz_registered) + 1, nested, "compiler")
         IN  /\ fz_handlers' = Append(fz_handlers, handler)
             /\ fz_registered' = Append(fz_registered, handler)
    /\ UNCHANGED <<fz_fired, fz_finalized>>
    /\ UNCHANGED notFinalizeVars

\* layer.finalized(), by chained() or by the caller of compile_source
Finalized ==
    /\ fz_finalized < MaxFinalizations
    /\ LET l == finalized_handlers([handlers |-> fz_handlers,
                                    registered |-> fz_registered,
                                    fired |-> fz_fired])
       IN  /\ fz_handlers' = l.handlers
           /\ fz_registered' = l.registered
           /\ fz_fired' = l.fired
    /\ fz_finalized' = fz_finalized + 1
    /\ UNCHANGED notFinalizeVars

InitFinalize ==
    /\ fz_handlers = <<>>
    /\ fz_registered = <<>>
    /\ fz_fired = <<>>
    /\ fz_finalized = 0
    /\ BuilderIdle
    /\ InIdle
    /\ FunnelIdle
    /\ PlannerIdle
    /\ WeekIdle
    /\ LiftIdle
    /\ WireIdle
    /\ ExecIdle
    /\ NamingIdle
    /\ StepHashIdle
    /\ PickIdle
    /\ NamesIdle
    /\ ResolveIdle
    /\ IdMapIdle
    /\ KeyPathIdle

NextFinalize == AppendOnFinalize \/ Finalized

SpecFinalize == InitFinalize /\ [][NextFinalize]_vars

\* C26: the handlers of a layer are called in the order they were appended
\* and once each, those appended while finalized() runs included; after
\* finalized() none is pending, so finalizing again calls none a second time.
C26_HandlersFifoOnce ==
    /\ Len(fz_fired) <= Len(fz_registered)
    /\ fz_fired = SubSeq(fz_registered, 1, Len(fz_fired))
    /\ fz_handlers = SubSeq(fz_registered, Len(fz_fired) + 1, Len(fz_registered))
    /\ \A i, j \in 1..Len(fz_fired) : i # j => fz_fired[i].id # fz_fired[j].id

\* the layer was finalized twice, with handlers appended by handlers and
\* by the compiler between the two calls, and no handler is pending
C26_Witness ==
    /\ fz_finalized = 2
    /\ fz_handlers = <<>>
    /\ Len(fz_fired) >= 5
    /\ \E i \in 1..(Len(fz_fired) - 1) :
          fz_fired[i].nested = 0 /\ fz_fired[i + 1].nested > 0

\* ---------------------------------------------------------------------------
\* IdentifiableMap (utils/identifiable.py), built by its constructor, as
\* Model.aggregate builds Model._attributes, or by add.
\* ---------------------------------------------------------------------------
MaxMapCalls == 4      \* constructor and add calls on one map
MaxItems == 2         \* items handed to the constructor

MapIdentifiers == {"x", "y"}
MapElements == {[identifier |-> id, value |-> v] : id \in MapIdentifiers, v \in {1, 2}}

\* IdentifiableMap.__init__: storage = list(items) if items else []
IdentifiableMap(items) == items

\* IdentifiableMap(items) for any iterable of elements
IdentifiableMapInit ==
    /\ im_calls = 0
    /\ \E items \in SeqsUpTo(MapElements, MaxItems) :
         im_storage' = IdentifiableMap(items)
    /\ im_calls' = 1
    /\ UNCHANGED notIdMapVars

\* Model.aggregate: _attributes = IdentifiableMap(column(c.identifier) for c
\* in groups + measures); the element of a column is its identifier
ModelAggregate ==
    /\ im_calls = 0
    /\ \E groups \in SeqsUpTo(MapIdentifiers, 1), measures \in SeqsUpTo(MapIdentifiers, 1) :
         im_storage' = IdentifiableMap(
             [i \in 1..Len(groups \o measures) |->
                 [identifier |-> (groups \o measures)[i], value |-> 1]])
    /\ im_calls' = 1
    /\ UNCHANGED notIdMapVars

\* IdentifiableMap.add
IdentifiableMapAdd ==
    /\ im_calls \in 1..(MaxMapCalls - 1)
    /\ \E value \in MapElements : im_storage' = IdMapAdd(im_storage, value)
    /\ im_calls' = im_calls + 1
    /\ UNCHANGED notIdMapVars

InitIdMap ==
    /\ im_storage = <<>>
    /\ im_calls = 0
    /\ BuilderIdle
    /\ InIdle
    /\ FunnelIdle
    /\ PlannerIdle
    /\ WeekIdle
    /\ LiftIdle
    /\ WireIdle
    /\ ExecIdle
    /\ NamingIdle
    /\ StepHashIdle
    /\ PickIdle
    /\ NamesIdle
    /\ ResolveIdle
    /\ FinalizeIdle
    /\ KeyPathIdle

NextIdMap == IdentifiableMapInit \/ ModelAggregate \/ IdentifiableMapAdd

SpecIdMap == InitIdMap /\ [][NextIdMap]_vars

\* C28: an IdentifiableMap never holds two elements with the same
\* identifier, whether it was built by the constructor or by add.
C28_IdentifiersUnique ==
    \A i, j \in 1..Len(im_storage) :
        i # j => im_storage[i].identifier # im_storage[j].identifier

\* ---------------------------------------------------------------------------
\* KeyPaths in a list (utils/keypath): [*literals, *(f(s) for s in
\* _.some_numbers)] resolved against a root object.  Python values are
\* tagged: [kind, value].
\* ---------------------------------------------------------------------------
MaxNumbers == 2       \* length of root.some_numbers and of the literals

PyIntValue(n) == [kind |-> "int", value |-> n]
PyObject(fields) == [kind |-> "object", value |-> fields]
PyList(items) == [kind |-> "list", value |-> items]
PyMethod(name, self) == [kind |-> "method", value |-> [name |-> name, self |-> self]]
PyError(name) == [kind |-> "error", value |-> name]

KeyPathComponentProperty(name) == [type |-> "property", name |-> name, args |-> <<>>]
KeyPathComponentCall(args) == [type |-> "call", name |-> "", args |-> args]

\* KeyPath(components)
KeyPath(components) ==
    [kind |-> "KeyPath", value |-> [components |-> components, iter_base |-> <<>>]]

\* IterItemKeyPath(base, components)
IterItemKeyPath(base, components) ==
    [kind |-> "KeyPath", value |-> [components |-> components, iter_base |-> <<base>>]]

\* getattr(current, name)
GetAttr(current, name) ==
    CASE current.kind = "object" /\ name \in DOMAIN current.value -> current.value[name]
      [] current.kind = "int" /\ name = "__add__" -> PyMethod(name, current.value)
      [] OTHER -> PyError("AttributeError")

\* current(*args) for the bound method int.__add__
CallValue(current, args) ==
    IF current.kind = "method" /\ Len(args) = 1 /\ args[1].kind = "int"
    THEN PyIntValue(current.value.self + args[1].value)
    ELSE PyError("TypeError")

\* resolve_keypath: the components applied to the root, one after the other;
\* an exception ends the resolution
RECURSIVE ResolveComponents(_, _)
ResolveComponents(current, components) ==
    IF components = <<>> \/ current.kind = "error" THEN current
    ELSE LET component == Head(components)
         IN  ResolveComponents(
                 IF component.type = "property" THEN GetAttr(current, component.name)
                 ELSE CallValue(current, component.args),
                 Tail(components))

resolve_keypath(root, keypath) ==
    IF keypath.kind # "KeyPath" THEN keypath
    ELSE ResolveComponents(root, keypath.value.components)

\* resolve_all_nested_keypaths expanding an IterItemKeyPath over its base
resolve_all_nested_keypaths_spliced(root, values) ==
    LET Resolved(v) ==
            IF v.kind = "KeyPath" /\ v.value.iter_base # <<>>
            THEN LET items == resolve_keypath(root, v.value.iter_base[1]).value
                 IN  [k \in 1..Len(items) |->
                         ResolveComponents(items[k], v.value.components)]
            ELSE <<resolve_keypath(root, v)>>
        F[k \in 0..Len(values)] ==
            IF k = 0 THEN <<>> ELSE F[k - 1] \o Resolved(values[k])
    IN  F[Len(values)]

\* resolve_all_nested_keypaths for a list: one resolved value per element
resolve_all_nested_keypaths(root, values) ==
    [k \in 1..Len(values) |-> resolve_keypath(root, values[k])]

\* the item templates: s, s + 1
ItemTemplates ==
    {<<>>,
     <<KeyPathComponentProperty("__add__"), KeyPathComponentCall(<<PyIntValue(1)>>)>>}

ResolveAllNestedKeypaths ==
    /\ kp_pc = "call"
    /\ kp_resolved' = resolve_all_nested_keypaths(kp_root, kp_values)
    /\ kp_pc' = "done"
    /\ UNCHANGED <<kp_root, kp_values>>
    /\ UNCHANGED notKeyPathVars

InitKeyPath ==
    /\ \E numbers \in SeqsUpTo({2, 3}, MaxNumbers) :
         kp_root = PyObject([some_numbers |->
                      PyList([k \in 1..Len(numbers) |-> PyIntValue(numbers[k])])])
    /\ \E literals \in SeqsUpTo({1, 2}, MaxNumbers), template \in ItemTemplates :
         kp_values = [k \in 1..Len(literals) |-> PyIntValue(literals[k])] \o
                     <<IterItemKeyPath(
                          KeyPath(<<KeyPathComponentProperty("some_numbers")>>), template)>>
    /\ kp_resolved = <<>>
    /\ kp_pc = "call"
    /\ BuilderIdle
    /\ InIdle
    /\ FunnelIdle
    /\ PlannerIdle
    /\ WeekIdle
    /\ LiftIdle
    /\ WireIdle
    /\ ExecIdle
    /\ NamingIdle
    /\ StepHashIdle
    /\ PickIdle
    /\ NamesIdle
    /\ ResolveIdle
    /\ FinalizeIdle
    /\ IdMapIdle

NextKeyPath == ResolveAllNestedKeypaths

SpecKeyPath == InitKeyPath /\ [][NextKeyPath]_vars

\* C29: resolving a list against a root puts, in place of an
\* IterItemKeyPath, one resolved value per item of the collection it
\* iterates, at the level of the list.
C29_IterItemSpliced ==
    kp_pc = "done" =>
        LET expected == resolve_all_nested_keypaths_spliced(kp_root, kp_values)
        IN  /\ Len(kp_resolved) = Len(expected)
            /\ \A k \in 1..Len(expected) :
                  /\ kp_resolved[k].kind = expected[k].kind
                  /\ kp_resolved[k].value = expected[k].value

\* the objects of the expression the caller built for this compilation
BuiltIds(expr) == {expr.id, expr.left.id, expr.right.id}

\* C30: the ctx.preprocessed guard skips an expression only if that very
\* expression is the output of an earlier preprocessing pass: an expression
\* the caller has just built is never found in ctx.preprocessed, so its
\* preprocessors are applied.
C30_GuardSkipsOnlyPreprocessed ==
    [][lf_n' = lf_n + 1 => BuiltIds(lf_expr') \cap lf_preprocessed = {}]_vars

====
